---- MODULE Spec2Model ----
(***************************************************************************)
(* SmartSpend price comparison backend (src/server.js).                    *)
(*                                                                         *)
(* The model covers the search pipeline performSerpApiSearch with its      *)
(* three upstream providers, the sqlite tables products and price_history  *)
(* written by it, the trend classifier getPricePrediction, the ranker      *)
(* filterAndSortProducts and the GET /search handler; and the account,     *)
(* wishlist and cart endpoints with the price drop worker that sweeps the  *)
(* cart every ten minutes.                                                 *)
(*                                                                         *)
(* JavaScript values are tagged records; text is a sequence of             *)
(* one-character strings so that parsing, formatting and encoding are      *)
(* computed character by character as the code does.                       *)
(***************************************************************************)
EXTENDS Integers, Sequences, FiniteSets, TLC

(***************************************************************************)
(* Bounds of the model.                                                    *)
(***************************************************************************)
\* number of GET /search requests, all of which may be in flight together
NumSearches == 2
\* longest result array an upstream provider answers with
MaxItems == 2
\* largest value of the millisecond clock Date.now()
MaxTime == 1
\* number of upstream calls that are answered, over all searches
MaxCalls == 3
\* number of listings the upstream providers return, over all searches
MaxListings == 2
\* number of sqlite statements that end with an I/O error
MaxStoreErrors == 1

\* number of account, wishlist and cart requests, all of which may be in flight together
MaxRequests == 2
\* number of times the timer of the price drop worker fires
MaxSweeps == 2
\* longest product list that filterAndSortProducts is called on
MaxRanked == 3
\* longest price history of one product that getPricePrediction is called on
MaxHistory == 6

(***************************************************************************)
(* JavaScript values.                                                      *)
(***************************************************************************)
Undefined == [t |-> "undefined"]
Str(s) == [t |-> "string", v |-> s]
Num(n) == [t |-> "number", n |-> n]
\* SQL NULL, what the sqlite driver binds for undefined
Null == [t |-> "null"]

\* a JSON array (an empty array is truthy)
Arr(items) == [t |-> "array", v |-> items]

IsString(x) == x.t = "string"
IsNumber(x) == x.t = "number"

\* JavaScript truthiness, as used by &&, || and if
Truthy(x) ==
    CASE x.t = "undefined" -> FALSE
      [] x.t = "null" -> FALSE
      [] x.t = "string" -> Len(x.v) > 0
      [] x.t = "number" -> x.n # 0
      [] x.t = "array" -> TRUE

\* a || b
Or(a, b) == IF Truthy(a) THEN a ELSE b

DigitChars == <<"0", "1", "2", "3", "4", "5", "6", "7", "8", "9">>
Digit == {DigitChars[k] : k \in 1..10}
DigitVal(c) == (CHOOSE k \in 1..10 : DigitChars[k] = c) - 1

RECURSIVE NatToText(_)
\* decimal digits of a natural number
NatToText(n) ==
    IF n < 10 THEN <<DigitChars[n + 1]>>
    ELSE NatToText(n \div 10) \o <<DigitChars[(n % 10) + 1]>>

\* String(x), the conversion a template literal `${x}` applies
ToText(x) ==
    CASE x.t = "undefined" -> <<"u", "n", "d", "e", "f", "i", "n", "e", "d">>
      [] x.t = "null" -> <<"n", "u", "l", "l">>
      [] x.t = "string" -> x.v
      [] x.t = "number" -> IF x.n < 0 THEN <<"-">> \o NatToText(0 - x.n)
                           ELSE NatToText(x.n)

\* the value sqlite stores in a TEXT column for a bound parameter
Bind(x) == IF x.t = "undefined" \/ x.t = "null" THEN Null ELSE Str(ToText(x))

(***************************************************************************)
(* Text helpers.                                                           *)
(***************************************************************************)
UpperChars == <<"A", "B", "C", "D", "E", "F", "G", "H", "I", "J", "K", "L", "M",
                "N", "O", "P", "Q", "R", "S", "T", "U", "V", "W", "X", "Y", "Z">>
LowerChars == <<"a", "b", "c", "d", "e", "f", "g", "h", "i", "j", "k", "l", "m",
                "n", "o", "p", "q", "r", "s", "t", "u", "v", "w", "x", "y", "z">>

\* String.prototype.toLowerCase on one character
LowerChar(c) ==
    IF \E k \in 1..26 : UpperChars[k] = c
    THEN LowerChars[CHOOSE k \in 1..26 : UpperChars[k] = c]
    ELSE c

toLowerCase(s) == [k \in 1..Len(s) |-> LowerChar(s[k])]

\* String.prototype.includes
includes(s, sub) ==
    \E k \in 0..(Len(s) - Len(sub)) :
        \A j \in 1..Len(sub) : s[k + j] = sub[j]

\* the characters /\s/ matches, among those the model uses
IsSpace(c) == c = " "

RECURSIVE SplitWs(_, _, _)
\* String.prototype.split(/\s+/): the pieces between maximal runs of white space
\* (cur is the piece being read, gap tells that the last character was a space)
SplitWs(s, cur, gap) ==
    IF s = <<>> THEN <<cur>>
    ELSE IF IsSpace(Head(s))
         THEN IF gap THEN SplitWs(Tail(s), cur, TRUE)
              ELSE <<cur>> \o SplitWs(Tail(s), <<>>, TRUE)
         ELSE SplitWs(Tail(s), Append(cur, Head(s)), FALSE)

split(s) == SplitWs(s, <<>>, FALSE)

(***************************************************************************)
(* Numbers read from price text.  A number is NaN or m / 10^d.             *)
(***************************************************************************)
NaN == [nan |-> TRUE]
Dec(m, d) == [nan |-> FALSE, m |-> m, d |-> d]
isNaN(x) == x.nan

RECURSIVE Pow10(_)
Pow10(k) == IF k = 0 THEN 1 ELSE 10 * Pow10(k - 1)

\* replace(/[^0-9.]/g, ''): keep only digits and dots
StripNonNumeric(s) == SelectSeq(s, LAMBDA c : c \in Digit \/ c = ".")

RECURSIVE DigitRun(_)
\* the longest prefix of digits
DigitRun(s) ==
    IF s # <<>> /\ Head(s) \in Digit THEN <<Head(s)>> \o DigitRun(Tail(s)) ELSE <<>>

RECURSIVE DigitsToNat(_)
DigitsToNat(ds) ==
    IF ds = <<>> THEN 0
    ELSE 10 * DigitsToNat(SubSeq(ds, 1, Len(ds) - 1)) + DigitVal(ds[Len(ds)])

\* parseFloat on text made of digits and dots: the longest prefix of the form
\* digits [. digits] or . digits; NaN when that prefix holds no digit
parseFloat(s) ==
    LET ip == DigitRun(s)
        rest == SubSeq(s, Len(ip) + 1, Len(s))
        fp == IF rest # <<>> /\ Head(rest) = "." THEN DigitRun(Tail(rest)) ELSE <<>>
    IN IF ip = <<>> /\ fp = <<>> THEN NaN
       ELSE Dec(DigitsToNat(ip \o fp), Len(fp))

\* a < b, a <= b on numbers that are not NaN (every comparison with NaN is false)
NumLess(a, b) == ~a.nan /\ ~b.nan /\ a.m * Pow10(b.d) < b.m * Pow10(a.d)
NumLeq(a, b) == ~a.nan /\ ~b.nan /\ a.m * Pow10(b.d) <= b.m * Pow10(a.d)

\* Number.prototype.toFixed(2); digits beyond the second decimal are rounded half up
toFixed2(x) ==
    IF x.nan THEN <<"N", "a", "N">>
    ELSE LET cents == IF x.d <= 2 THEN x.m * Pow10(2 - x.d)
                      ELSE (x.m + 5 * Pow10(x.d - 3)) \div Pow10(x.d - 2)
             frac == cents % 100
         IN NatToText(cents \div 100) \o <<".">>
                \o <<DigitChars[(frac \div 10) + 1], DigitChars[(frac % 10) + 1]>>

Rupee == "₹"

\* lines 144-146: the display form of a price that is text without a rupee sign
FormatPrice(p) == Str(<<Rupee>> \o toFixed2(parseFloat(StripNonNumeric(p.v))))

(***************************************************************************)
(* Buffer.from(text).toString('base64').                                   *)
(***************************************************************************)
\* the printable ASCII characters, code 32 first (the grave accent, code 96, is
\* spelled out: no text of the model holds it)
AsciiChars ==
    <<" ", "!", "\"", "#", "$", "%", "&", "'", "(", ")", "*", "+",
      ",", "-", ".", "/", "0", "1", "2", "3", "4", "5", "6", "7",
      "8", "9", ":", ";", "<", "=", ">", "?", "@", "A", "B", "C",
      "D", "E", "F", "G", "H", "I", "J", "K", "L", "M", "N", "O",
      "P", "Q", "R", "S", "T", "U", "V", "W", "X", "Y", "Z", "[",
      "\\", "]", "^", "_", "<grave>", "a", "b", "c", "d", "e", "f", "g",
      "h", "i", "j", "k", "l", "m", "n", "o", "p", "q", "r", "s",
      "t", "u", "v", "w", "x", "y", "z", "{", "|", "}", "~">>

Base64Chars ==
    <<"A", "B", "C", "D", "E", "F", "G", "H", "I", "J", "K", "L", "M",
      "N", "O", "P", "Q", "R", "S", "T", "U", "V", "W", "X", "Y", "Z",
      "a", "b", "c", "d", "e", "f", "g", "h", "i", "j", "k", "l", "m",
      "n", "o", "p", "q", "r", "s", "t", "u", "v", "w", "x", "y", "z",
      "0", "1", "2", "3", "4", "5", "6", "7", "8", "9", "+", "/">>

\* the UTF-8 bytes of one character
Utf8Char(c) ==
    IF c = Rupee THEN <<226, 130, 185>>
    ELSE <<(CHOOSE k \in 1..Len(AsciiChars) : AsciiChars[k] = c) + 31>>

RECURSIVE Utf8(_)
Utf8(s) == IF s = <<>> THEN <<>> ELSE Utf8Char(Head(s)) \o Utf8(Tail(s))

RECURSIVE Base64Bytes(_)
\* three bytes become four characters; a last group of one or two bytes is padded
Base64Bytes(b) ==
    IF Len(b) = 0 THEN <<>>
    ELSE IF Len(b) = 1
         THEN <<Base64Chars[(b[1] \div 4) + 1], Base64Chars[((b[1] % 4) * 16) + 1],
                "=", "=">>
    ELSE IF Len(b) = 2
         THEN <<Base64Chars[(b[1] \div 4) + 1],
                Base64Chars[((b[1] % 4) * 16 + (b[2] \div 16)) + 1],
                Base64Chars[((b[2] % 16) * 4) + 1], "=">>
    ELSE <<Base64Chars[(b[1] \div 4) + 1],
           Base64Chars[((b[1] % 4) * 16 + (b[2] \div 16)) + 1],
           Base64Chars[((b[2] % 16) * 4 + (b[3] \div 64)) + 1],
           Base64Chars[(b[3] % 64) + 1]>>
         \o Base64Bytes(SubSeq(b, 4, Len(b)))

Base64(s) == Base64Bytes(Utf8(s))

\* lines 112, 167, 224: the id of a product, from title, source and link
ProductId(title, source, link) ==
    Str(Base64(ToText(title) \o <<"-">> \o ToText(source) \o <<"-">> \o ToText(link)))

(***************************************************************************)
(* The three provider mappings of performSerpApiSearch.                    *)
(***************************************************************************)
Amazon == Str(<<"A", "m", "a", "z", "o", "n">>)
eBay == Str(<<"e", "B", "a", "y">>)

\* lines 111-119: Google Shopping
MapGoogle(item) ==
    [id |-> ProductId(item.title, item.source, item.product_link),
     title |-> item.title,
     price |-> item.price,
     link |-> item.product_link,
     source |-> item.source,
     thumbnail |-> item.thumbnail,
     rating |-> item.rating,
     prediction |-> Undefined]

\* lines 166-174: Amazon
MapAmazon(item) ==
    [id |-> ProductId(item.title, Amazon, item.link),
     title |-> item.title,
     price |-> item.price,
     link |-> item.link,
     source |-> Amazon,
     thumbnail |-> Or(item.thumbnail, item.image),
     rating |-> item.rating,
     prediction |-> Undefined]

\* line 222: eBay keeps the items that have a price and a thumbnail
EbayKeeps(item) == Truthy(item.price) /\ Truthy(item.thumbnail)

\* lines 223-231: eBay
MapEbay(item) ==
    [id |-> ProductId(item.title, eBay, item.link),
     title |-> item.title,
     price |-> item.price,
     link |-> item.link,
     source |-> eBay,
     thumbnail |-> item.thumbnail,
     rating |-> Or(item.rating, Num(0)),
     prediction |-> Undefined]

\* the product array adapter a (1 Google Shopping, 2 Amazon, 3 eBay) builds
MapResults(a, items) ==
    IF a = 1 THEN [k \in 1..Len(items) |-> MapGoogle(items[k])]
    ELSE IF a = 2 THEN [k \in 1..Len(items) |-> MapAmazon(items[k])]
    ELSE LET kept == SelectSeq(items, EbayKeeps)
         IN [k \in 1..Len(kept) |-> MapEbay(kept[k])]

(***************************************************************************)
(* filterAndSortProducts.                                                  *)
(***************************************************************************)
accessoryKeywords ==
    << <<"c", "a", "s", "e">>,
       <<"c", "o", "v", "e", "r">>,
       <<"s", "c", "r", "e", "e", "n", " ", "p", "r", "o", "t", "e", "c", "t", "o", "r">>,
       <<"t", "e", "m", "p", "e", "r", "e", "d", " ", "g", "l", "a", "s", "s">>,
       <<"s", "k", "i", "n">>,
       <<"p", "o", "u", "c", "h">>,
       <<"s", "t", "a", "n", "d">>,
       <<"h", "o", "l", "d", "e", "r">>,
       <<"s", "t", "r", "a", "p">>,
       <<"c", "h", "a", "r", "g", "e", "r">>,
       <<"c", "a", "b", "l", "e">>,
       <<"a", "d", "a", "p", "t", "e", "r">>,
       <<"e", "a", "r", "b", "u", "d", "s">>,
       <<"h", "e", "a", "d", "p", "h", "o", "n", "e", "s">>,
       <<"p", "r", "o", "t", "e", "c", "t", "o", "r">>,
       <<"b", "a", "g">>,
       <<"b", "a", "c", "k", " ", "c", "o", "v", "e", "r">>,
       <<"f", "l", "i", "p", " ", "c", "o", "v", "e", "r">>,
       <<"b", "u", "m", "p", "e", "r">>,
       <<"s", "h", "e", "l", "l">>,
       <<"g", "u", "a", "r", "d">> >>

\* isAccessory with an empty keyword list
isAccessoryNever(title) == FALSE

\* line 314 (title is text)
isAccessory(title) ==
    \E k \in 1..Len(accessoryKeywords) : includes(toLowerCase(title), accessoryKeywords[k])

\* line 317
queryWords(query) == SelectSeq(split(toLowerCase(query)), LAMBDA w : Len(w) > 0)

\* line 318 (title is text)
isRelevant(title, query) ==
    /\ \A k \in 1..Len(queryWords(query)) : includes(toLowerCase(title), queryWords(query)[k])
    /\ ~isAccessory(title)

Infinity == [nan |-> FALSE, inf |-> TRUE]
IsInfinity(x) == "inf" \in DOMAIN x

\* lines 326-327: parseFloat((p.price || '').replace(/[^0-9.]/g, '')) || Infinity
SortPrice(price) ==
    LET x == parseFloat(StripNonNumeric(Or(price, Str(<<>>)).v))
    IN IF x.nan \/ x.m = 0 THEN Infinity ELSE x

\* lines 320-329: the comparator is negative (a sorts before b)
SortsBefore(a, b, query) ==
    LET aRelevant == isRelevant(a.title.v, query)
        bRelevant == isRelevant(b.title.v, query)
        aPrice == SortPrice(a.price)
        bPrice == SortPrice(b.price)
    IN IF aRelevant /\ ~bRelevant THEN TRUE
       ELSE IF ~aRelevant /\ bRelevant THEN FALSE
       ELSE IF IsInfinity(aPrice) THEN FALSE
       ELSE IF IsInfinity(bPrice) THEN TRUE
       ELSE NumLess(aPrice, bPrice)

\* the comparator throws a TypeError: toLowerCase of a title that is not text,
\* replace of a truthy price that is not text
CompareThrows(a, query) ==
    \/ ~IsString(a.title)
    \/ Truthy(a.price) /\ ~IsString(a.price)

\* Array.prototype.sort calls the comparator on every element of an array of
\* two or more elements
SortThrows(list, query) ==
    Len(list) >= 2 /\ \E k \in 1..Len(list) : CompareThrows(list[k], query)

\* InsertSorted of a sort that is not stable: x goes before the elements it ties with
RECURSIVE InsertBeforeTies(_, _, _)
InsertBeforeTies(sorted, x, query) ==
    IF sorted = <<>> THEN <<x>>
    ELSE IF ~SortsBefore(sorted[Len(sorted)], x, query)
         THEN Append(InsertBeforeTies(SubSeq(sorted, 1, Len(sorted) - 1), x, query),
                     sorted[Len(sorted)])
         ELSE Append(sorted, x)

\* insert x after the last element that does not sort after it
RECURSIVE InsertSorted(_, _, _)
InsertSorted(sorted, x, query) ==
    IF sorted = <<>> THEN <<x>>
    ELSE IF SortsBefore(x, sorted[Len(sorted)], query)
         THEN Append(InsertSorted(SubSeq(sorted, 1, Len(sorted) - 1), x, query),
                     sorted[Len(sorted)])
         ELSE Append(sorted, x)

RECURSIVE StableSort(_, _)
\* Array.prototype.sort is stable (ECMAScript 2019)
StableSort(list, query) ==
    IF Len(list) <= 1 THEN list
    ELSE InsertSorted(StableSort(SubSeq(list, 1, Len(list) - 1), query),
                      list[Len(list)], query)

\* filterAndSortProducts that filters the accessories out, as its name suggests
filterAndSortProductsDropping(list, query) ==
    StableSort(SelectSeq(list, LAMBDA p : ~isAccessory(p.title.v)), query)

\* lines 311-331, for a list the comparator does not throw on
filterAndSortProducts(list, query) == StableSort(list, query)

(***************************************************************************)
(* getPricePrediction.                                                     *)
(***************************************************************************)
RECURSIVE MaxOf(_)
MaxOf(S) ==
    LET x == CHOOSE y \in S : TRUE
    IN IF S = {x} THEN x ELSE LET m == MaxOf(S \ {x}) IN IF x > m THEN x ELSE m

RECURSIVE MinOf(_)
MinOf(S) ==
    LET x == CHOOSE y \in S : TRUE
    IN IF S = {x} THEN x ELSE LET m == MinOf(S \ {x}) IN IF x < m THEN x ELSE m

RECURSIVE SumSeq(_)
SumSeq(q) == IF q = <<>> THEN 0 ELSE Head(q) + SumSeq(Tail(q))

\* line 284: the prices of the rows that parse to a number
RowPrices(rows) ==
    SelectSeq([k \in 1..Len(rows) |-> parseFloat(StripNonNumeric(rows[k].price.v))],
              LAMBDA x : ~isNaN(x))

\* line 289 throws a TypeError when currentPrice is not text
PredictionThrows(rows, currentPrice) ==
    Len(rows) >= 3 /\ Len(RowPrices(rows)) >= 3 /\ ~IsString(currentPrice)

\* Prediction with the ceiling test before the floor test
PredictionCeilingFirst(rows, currentPrice) ==
    IF Len(rows) < 3 THEN "neutral"
    ELSE LET prices == RowPrices(rows)
         IN IF Len(prices) < 3 THEN "neutral"
            ELSE LET latestPrice == parseFloat(StripNonNumeric(currentPrice.v))
                 IN IF isNaN(latestPrice) THEN "neutral"
                    ELSE LET D == MaxOf({latestPrice.d} \cup {prices[k].d : k \in 1..Len(prices)})
                             c == latestPrice.m * Pow10(D - latestPrice.d)
                             ps == [k \in 1..Len(prices) |-> prices[k].m * Pow10(D - prices[k].d)]
                             n == Len(ps)
                             sum == SumSeq(ps)
                             minPrice == MinOf({ps[k] : k \in 1..n})
                             maxPrice == MaxOf({ps[k] : k \in 1..n})
                         IN IF c * 100 >= maxPrice * 95 THEN "wait"
                            ELSE IF c * 100 <= minPrice * 105 THEN "buy"
                            ELSE IF c * 100 * n < sum * 98 THEN "buy"
                            ELSE IF c * 100 * n > sum * 102 THEN "wait"
                            ELSE "neutral"

\* Prediction that is content with two prices
PredictionFromTwo(rows, currentPrice) ==
    IF Len(rows) < 2 THEN "neutral"
    ELSE LET prices == RowPrices(rows)
         IN IF Len(prices) < 2 THEN "neutral"
            ELSE LET latestPrice == IF IsString(currentPrice)
                                    THEN parseFloat(StripNonNumeric(currentPrice.v))
                                    ELSE NaN
                 IN IF isNaN(latestPrice) THEN "neutral"
                    ELSE LET D == MaxOf({latestPrice.d} \cup {prices[k].d : k \in 1..Len(prices)})
                             c == latestPrice.m * Pow10(D - latestPrice.d)
                             ps == [k \in 1..Len(prices) |-> prices[k].m * Pow10(D - prices[k].d)]
                             n == Len(ps)
                             sum == SumSeq(ps)
                             minPrice == MinOf({ps[k] : k \in 1..n})
                             maxPrice == MaxOf({ps[k] : k \in 1..n})
                         IN IF c * 100 <= minPrice * 105 THEN "buy"
                            ELSE IF c * 100 >= maxPrice * 95 THEN "wait"
                            ELSE IF c * 100 * n < sum * 98 THEN "buy"
                            ELSE IF c * 100 * n > sum * 102 THEN "wait"
                            ELSE "neutral"

\* lines 280-305; the products with 1.05, 0.95, 0.98 and 1.02 are computed exactly,
\* all numbers brought to the same power of ten
Prediction(rows, currentPrice) ==
    IF Len(rows) < 3 THEN "neutral"
    ELSE LET prices == RowPrices(rows)
         IN IF Len(prices) < 3 THEN "neutral"
            ELSE LET latestPrice == parseFloat(StripNonNumeric(currentPrice.v))
                 IN IF isNaN(latestPrice) THEN "neutral"
                    ELSE LET D == MaxOf({latestPrice.d} \cup {prices[k].d : k \in 1..Len(prices)})
                             c == latestPrice.m * Pow10(D - latestPrice.d)
                             ps == [k \in 1..Len(prices) |-> prices[k].m * Pow10(D - prices[k].d)]
                             n == Len(ps)
                             sum == SumSeq(ps)
                             minPrice == MinOf({ps[k] : k \in 1..n})
                             maxPrice == MaxOf({ps[k] : k \in 1..n})
                         IN IF c * 100 <= minPrice * 105 THEN "buy"
                            ELSE IF c * 100 >= maxPrice * 95 THEN "wait"
                            ELSE IF c * 100 * n < sum * 98 THEN "buy"
                            ELSE IF c * 100 * n > sum * 102 THEN "wait"
                            ELSE "neutral"

(***************************************************************************)
(* Inputs: what the upstream providers answer and what clients ask.        *)
(***************************************************************************)
TextTv == <<"t", "v">>

\* a listing with a plain price, which the display pass reformats
ItemPlain ==
    [title |-> Str(TextTv), price |-> Str(<<"1", "0", "0">>), link |-> Str(<<"l">>),
     product_link |-> Str(<<"l">>), source |-> Str(<<"s">>), thumbnail |-> Str(<<"i">>),
     image |-> Undefined, rating |-> Num(4)]
\* the same listing without price and thumbnail
ItemNoPrice == [ItemPlain EXCEPT !.price = Undefined, !.thumbnail = Undefined]
\* a listing without title and rating, priced in rupees
ItemNoTitle ==
    [ItemPlain EXCEPT !.title = Undefined, !.price = Str(<<Rupee, "9", "0">>),
                      !.rating = Undefined]

Catalog == {ItemPlain, ItemNoPrice, ItemNoTitle}

ItemLists == UNION {[1..n -> Catalog] : n \in 0..MaxItems}

\* the results field of a provider's response body: absent, not an array, or an array
Payloads == {Undefined, Str(<<"x">>)} \cup {Arr(l) : l \in ItemLists}

\* req.query.q
Queries == {Undefined, Str(TextTv)}

Searches == 1..NumSearches

(***************************************************************************)
(* State.                                                                  *)
(***************************************************************************)
VARIABLES
    now,            \* the millisecond clock Date.now() reads
    crashed,        \* the process ended on an uncaught exception
    storeErrors,    \* sqlite statements that ended with an I/O error so far
    products,       \* table products: a set of rows
    price_history,  \* table price_history: the rows in insertion order
    pending,        \* sqlite statements handed to the driver and not yet run
    pc,             \* where each GET /search request stands
    query,          \* its q parameter
    adapter,        \* the provider its search is at: 1 Google Shopping, 2 Amazon, 3 eBay
    batch,          \* the product objects its search built from each provider's results
    idx,            \* the product its prediction loop is at
    response,       \* the HTTP response it sent
    calls,          \* history: the providers its search has called, in order
    answers,        \* history: what each called provider answered
    reads,          \* history: the history queries run, and whether the result held
                    \*          the price point written for the same product object
    failed,         \* history: the statements that ended with an error
    lastUpsert,     \* history: per id, the upsert applied last
    customers,      \* table customers
    cart,           \* table cart
    wishlists,      \* table wishlists
    replies,        \* the account, wishlist and cart requests received, by arrival:
                    \* the response sent to each
    sweeps,         \* how often the timer of the price drop worker has fired
    mailing,        \* the transporter.sendMail calls in flight
    outbox,         \* history: the mails the transport accepted
    sweepLog,       \* history: the rows each sweep read, and whether it mailed
    cleared,        \* history: the reminders the sweeps cleared
    arg,            \* the arguments of the function call under study
    result          \* what the call returned

\* the state of the search pipeline, of the shop endpoints, of a single call
searchVars == <<now, crashed, storeErrors, products, price_history, pending, pc, query,
                adapter, batch, idx, response, calls, answers, reads, failed, lastUpsert>>
shopVars == <<customers, cart, wishlists, replies, sweeps, mailing, outbox, sweepLog,
              cleared>>
callVars == <<arg, result>>

vars == <<searchVars, shopVars, callVars>>

NoResponse == [status |-> 0, error |-> "", body |-> <<>>]
Http(status, error, body) == [status |-> status, error |-> error, body |-> body]

\* line 29: smartspend.db outlives the process; the tables are empty on the first
\* start, and on a later start they hold what earlier searches wrote, here the
\* Google Shopping listing ItemPlain found three times
StoredBefore ==
    [products |->
        {[id |-> ProductId(ItemPlain.title, ItemPlain.source, ItemPlain.product_link),
          title |-> ItemPlain.title, thumbnail |-> ItemPlain.thumbnail,
          link |-> ItemPlain.product_link, source |-> ItemPlain.source,
          last_price |-> ItemPlain.price, last_updated |-> 0, by |-> <<0, 0, 0>>]},
     price_history |->
        [k \in 1..3 |->
            [product_id |-> ProductId(ItemPlain.title, ItemPlain.source, ItemPlain.product_link),
             price |-> ItemPlain.price, timestamp |-> 0, by |-> <<0, 0, 0>>]],
     customers |-> {}]

\* lines 29-79: the tables as created on the first start
EmptyDatabase == [products |-> {}, price_history |-> <<>>, customers |-> {}]

\* the state when the server has started on the database db
InitOn(db) ==
    /\ now = 0
    /\ crashed = FALSE
    /\ storeErrors = 0
    /\ products = db.products
    /\ price_history = db.price_history
    /\ pending = {}
    /\ pc = [s \in Searches |-> "idle"]
    /\ query = [s \in Searches |-> Undefined]
    /\ adapter = [s \in Searches |-> 1]
    /\ batch = [s \in Searches |-> [a \in 1..3 |-> <<>>]]
    /\ idx = [s \in Searches |-> 0]
    /\ response = [s \in Searches |-> NoResponse]
    /\ calls = [s \in Searches |-> <<>>]
    /\ answers = [s \in Searches |-> <<>>]
    /\ reads = {}
    /\ failed = {}
    /\ lastUpsert = [id \in {r.id : r \in db.products} |->
                        CHOOSE r \in db.products : r.id = id]
    /\ customers = db.customers
    /\ cart = {}
    /\ wishlists = {}
    /\ replies = <<>>
    /\ sweeps = 0
    /\ mailing = {}
    /\ outbox = {}
    /\ sweepLog = {}
    /\ cleared = {}
    /\ arg = <<>>
    /\ result = <<>>

Init == InitOn(EmptyDatabase)

InitRestart == InitOn(StoredBefore)

(***************************************************************************)
(* GET /search and performSerpApiSearch up to the provider's answer.       *)
(***************************************************************************)
\* lines 344-353 and 102-106: the handler validates q and the search calls
\* Google Shopping (requests are numbered in the order they arrive)
SearchRequest(s) ==
    /\ ~crashed
    /\ pc[s] = "idle"
    /\ \A r \in Searches : r < s => pc[r] # "idle"
    /\ \E q \in Queries :
        /\ query' = [query EXCEPT ![s] = q]
        /\ IF ~Truthy(q)
           THEN /\ pc' = [pc EXCEPT ![s] = "done"]
                /\ response' = [response EXCEPT
                       ![s] = Http(400, "Query parameter \"q\" is required.", <<>>)]
                /\ UNCHANGED calls
           ELSE /\ pc' = [pc EXCEPT ![s] = "call"]
                /\ calls' = [calls EXCEPT ![s] = <<1>>]
                /\ UNCHANGED response
    /\ UNCHANGED <<shopVars, callVars>>
    /\ UNCHANGED <<now, crashed, storeErrors, products, price_history, pending,
                   adapter, batch, idx, answers, reads, failed, lastUpsert>>

\* lines 152-161, 207-216, 264-268 and 361-363: control leaves the try block of the
\* current provider without a return; the next provider is called, and after
\* eBay the search throws and the handler answers 500
NextProvider(s) ==
    IF adapter[s] < 3
    THEN /\ adapter' = [adapter EXCEPT ![s] = @ + 1]
         /\ calls' = [calls EXCEPT ![s] = Append(@, adapter[s] + 1)]
         /\ pc' = [pc EXCEPT ![s] = "call"]
         /\ UNCHANGED response
    ELSE /\ pc' = [pc EXCEPT ![s] = "done"]
         /\ response' = [response EXCEPT
                ![s] = Http(500, "No products found from any source. Please try a different search term.", <<>>)]
         /\ UNCHANGED <<adapter, calls>>

RECURSIVE SumOver(_, _)
SumOver(S, f) ==
    IF S = {} THEN 0
    ELSE LET x == CHOOSE y \in S : TRUE IN f[x] + SumOver(S \ {x}, f)

\* the upstream calls answered so far, and the listings they returned
AnsweredCalls == SumOver(Searches, [s \in Searches |-> Len(answers[s])])
Listings ==
    SumOver(Searches,
        [s \in Searches |->
            SumSeq([k \in 1..Len(answers[s]) |->
                IF answers[s][k].t = "array" THEN Len(answers[s][k].v) ELSE 0])])

\* the values n successive reads of Date.now() can return
Stamps(n) == {ts \in [1..n -> now..MaxTime] : \A k \in 1..(n - 1) : ts[k] <= ts[k + 1]}

\* lines 123-124: the statement that upserts product k of provider a's batch
\* (by is history: the product object the row was written for)
UpsertStatement(s, a, k, product, t) ==
    [op |-> "upsert", s |-> s, a |-> a, i |-> k,
     args |-> [id |-> Bind(product.id), title |-> Bind(product.title),
               thumbnail |-> Bind(product.thumbnail), link |-> Bind(product.link),
               source |-> Bind(product.source), last_price |-> Bind(product.price),
               last_updated |-> t, by |-> <<s, a, k>>]]

\* lines 129-130: the statement that appends a product's price point
HistoryStatement(s, a, k, product, t) ==
    [op |-> "history", s |-> s, a |-> a, i |-> k,
     args |-> [product_id |-> Bind(product.id), price |-> Bind(product.price),
               timestamp |-> t, by |-> <<s, a, k>>]]

\* lines 142 and 274: the query of getPricePrediction(product.id, product.price)
SelectStatement(s, a, k, product) ==
    [op |-> "select", s |-> s, a |-> a, i |-> k,
     args |-> [product_id |-> Bind(product.id), currentPrice |-> product.price]]

\* how a provider's call ended, for the history: with an exception that the catch
\* block of the provider logs, without a results field, or with a results array
Failed == [t |-> "error"]
Outcome(results) ==
    IF Truthy(results) /\ results.t # "array" THEN Failed ELSE results

\* AdapterFails without the catch block of the provider: the rejection leaves the
\* search and the handler answers 500
AdapterFailsUncaught(s) ==
    /\ ~crashed
    /\ pc[s] = "call"
    /\ AnsweredCalls < MaxCalls
    /\ answers' = [answers EXCEPT ![s] = Append(@, Failed)]
    /\ pc' = [pc EXCEPT ![s] = "done"]
    /\ response' = [response EXCEPT
           ![s] = Http(500, "No products found from any source. Please try a different search term.", <<>>)]
    /\ UNCHANGED <<shopVars, callVars>>
    /\ UNCHANGED <<now, crashed, storeErrors, products, price_history, pending,
                   query, adapter, batch, idx, calls, reads, failed, lastUpsert>>

\* lines 106, 152-154: axios.get rejects (timeout, non-2xx status, network error)
AdapterFails(s) ==
    /\ ~crashed
    /\ pc[s] = "call"
    /\ AnsweredCalls < MaxCalls
    /\ answers' = [answers EXCEPT ![s] = Append(@, Failed)]
    /\ NextProvider(s)
    /\ UNCHANGED <<shopVars, callVars>>
    /\ UNCHANGED <<now, crashed, storeErrors, products, price_history, pending,
                   query, batch, idx, reads, failed, lastUpsert>>

\* lines 106-142: axios.get resolves; everything up to the first await runs in one
\* turn of the event loop: the mapping, the store loop that hands one upsert per
\* product to the driver, and the call of getPricePrediction for the first product
AdapterResponds(s) ==
    /\ ~crashed
    /\ pc[s] = "call"
    /\ AnsweredCalls < MaxCalls
    /\ \E results \in Payloads :
        /\ results.t = "array" => Listings + Len(results.v) <= MaxListings
        /\ answers' = [answers EXCEPT ![s] = Append(@, Outcome(results))]
        /\ IF ~Truthy(results) \/ results.t # "array"
           THEN \* the if of line 109 is false, or results.map throws a TypeError
                /\ NextProvider(s)
                /\ UNCHANGED <<now, pending, batch, idx>>
           ELSE LET a == adapter[s]
                    list == MapResults(a, results.v)
                    n == Len(list)
                IN /\ batch' = [batch EXCEPT ![s][a] = list]
                   /\ \E ts \in Stamps(n) :
                        /\ now' = IF n = 0 THEN now ELSE ts[n]
                        /\ pending' = pending
                              \cup {UpsertStatement(s, a, k, list[k], ts[k]) : k \in 1..n}
                              \cup (IF n = 0 THEN {} ELSE {SelectStatement(s, a, 1, list[1])})
                   /\ IF n = 0
                      THEN \* lines 150 and 356-357: the empty array is returned
                           /\ pc' = [pc EXCEPT ![s] = "done"]
                           /\ response' = [response EXCEPT
                                  ![s] = Http(404,
                                       "No products found. Try a different search term.", <<>>)]
                           /\ UNCHANGED idx
                      ELSE /\ pc' = [pc EXCEPT ![s] = "predict"]
                           /\ idx' = [idx EXCEPT ![s] = 1]
                           /\ UNCHANGED response
                   /\ UNCHANGED <<adapter, calls>>
    /\ UNCHANGED <<shopVars, callVars>>
    /\ UNCHANGED <<crashed, storeErrors, products, price_history, query, reads,
                   failed, lastUpsert>>

(***************************************************************************)
(* The sqlite statements.  The driver runs the statements it holds in any  *)
(* order (the database is in parallel mode outside db.serialize); each     *)
(* action is one statement together with its completion callback.          *)
(***************************************************************************)
\* a statement may end with an I/O error while the budget lasts
IoOutcomes == IF storeErrors < MaxStoreErrors THEN {FALSE, TRUE} ELSE {FALSE}

\* InsertOrReplace as a plain INSERT into a table without primary key
InsertKeepingOld(table, row) == table \cup {row}

\* INSERT OR REPLACE INTO products: the row with the same id is replaced
InsertOrReplace(table, row) == {r \in table : r.id # row.id} \cup {row}

\* DbRunUpsert with a callback that does not append the price point
DbRunUpsertOnly(st) ==
    /\ ~crashed
    /\ st \in pending
    /\ st.op = "upsert"
    /\ \E io \in IoOutcomes :
        LET err == io \/ st.args.title = Null \/ st.args.link = Null
        IN /\ storeErrors' = IF io THEN storeErrors + 1 ELSE storeErrors
           /\ pending' = pending \ {st}
           /\ IF err
              THEN /\ failed' = failed \cup {[op |-> "upsert", by |-> st.args.by]}
                   /\ UNCHANGED <<products, lastUpsert>>
              ELSE /\ products' = InsertOrReplace(products, st.args)
                   /\ lastUpsert' = [id \in DOMAIN lastUpsert \cup {st.args.id} |->
                                        IF id = st.args.id THEN st.args ELSE lastUpsert[id]]
                   /\ UNCHANGED failed
    /\ UNCHANGED <<shopVars, callVars>>
    /\ UNCHANGED <<now, crashed, price_history, pc, query, adapter, batch, idx, response,
                   calls, answers, reads>>

\* DbRunUpsert when the batch is written in one transaction: a failed upsert
\* takes the other writes of the batch with it
DbRunUpsertAllOrNothing(st) ==
    /\ ~crashed
    /\ st \in pending
    /\ st.op = "upsert"
    /\ \E io \in IoOutcomes :
        LET product == batch[st.s][st.a][st.i]
            err == io \/ st.args.title = Null \/ st.args.link = Null
        IN /\ storeErrors' = IF io THEN storeErrors + 1 ELSE storeErrors
           /\ IF err
              THEN /\ pending' = {p \in pending :
                                    p.op = "select" \/ <<p.s, p.a>> # <<st.s, st.a>>}
                   /\ failed' = failed \cup {[op |-> "upsert", by |-> st.args.by]}
                   /\ UNCHANGED <<products, now, lastUpsert>>
              ELSE /\ products' = InsertOrReplace(products, st.args)
                   /\ lastUpsert' = [id \in DOMAIN lastUpsert \cup {st.args.id} |->
                                        IF id = st.args.id THEN st.args ELSE lastUpsert[id]]
                   /\ UNCHANGED failed
                   /\ \E t \in now..MaxTime :
                        /\ now' = t
                        /\ pending' = (pending \ {st})
                              \cup {HistoryStatement(st.s, st.a, st.i, product, t)}
    /\ UNCHANGED <<shopVars, callVars>>
    /\ UNCHANGED <<crashed, price_history, pc, query, adapter, batch, idx, response,
                   calls, answers, reads>>

\* lines 123-136: the upsert runs; its callback appends the price point with the
\* price the product object holds at that moment
DbRunUpsert(st) ==
    /\ ~crashed
    /\ st \in pending
    /\ st.op = "upsert"
    /\ \E io \in IoOutcomes :
        LET product == batch[st.s][st.a][st.i]
            \* products.title and products.link are NOT NULL
            err == io \/ st.args.title = Null \/ st.args.link = Null
        IN /\ storeErrors' = IF io THEN storeErrors + 1 ELSE storeErrors
           /\ IF err
              THEN /\ pending' = pending \ {st}
                   /\ failed' = failed \cup {[op |-> "upsert", by |-> st.args.by]}
                   /\ UNCHANGED <<products, now, lastUpsert>>
              ELSE /\ products' = InsertOrReplace(products, st.args)
                   /\ lastUpsert' = [id \in DOMAIN lastUpsert \cup {st.args.id} |->
                                        IF id = st.args.id THEN st.args ELSE lastUpsert[id]]
                   /\ UNCHANGED failed
                   /\ \E t \in now..MaxTime :
                        /\ now' = t
                        /\ pending' = (pending \ {st})
                              \cup {HistoryStatement(st.s, st.a, st.i, product, t)}
    /\ UNCHANGED <<shopVars, callVars>>
    /\ UNCHANGED <<crashed, price_history, pc, query, adapter, batch, idx, response,
                   calls, answers, reads>>

\* DbRunHistory with INSERT OR REPLACE keyed by product: the new price point
\* takes the place of the product's earlier ones
DbRunHistoryReplacing(st) ==
    /\ ~crashed
    /\ st \in pending
    /\ st.op = "history"
    /\ \E io \in IoOutcomes :
        LET err == io \/ st.args.product_id = Null \/ st.args.price = Null
        IN /\ storeErrors' = IF io THEN storeErrors + 1 ELSE storeErrors
           /\ price_history' =
                  IF err THEN price_history
                  ELSE Append(SelectSeq(price_history,
                                  LAMBDA r : r.product_id # st.args.product_id), st.args)
           /\ failed' = IF err THEN failed \cup {[op |-> "history", by |-> st.args.by]}
                        ELSE failed
    /\ pending' = pending \ {st}
    /\ UNCHANGED <<shopVars, callVars>>
    /\ UNCHANGED <<now, crashed, products, pc, query, adapter, batch, idx, response,
                   calls, answers, reads, lastUpsert>>

\* lines 129-134: the insert into price_history runs
DbRunHistory(st) ==
    /\ ~crashed
    /\ st \in pending
    /\ st.op = "history"
    /\ \E io \in IoOutcomes :
        LET \* price_history.product_id and price_history.price are NOT NULL
            err == io \/ st.args.product_id = Null \/ st.args.price = Null
        IN /\ storeErrors' = IF io THEN storeErrors + 1 ELSE storeErrors
           /\ price_history' = IF err THEN price_history
                               ELSE Append(price_history, st.args)
           /\ failed' = IF err THEN failed \cup {[op |-> "history", by |-> st.args.by]}
                        ELSE failed
    /\ pending' = pending \ {st}
    /\ UNCHANGED <<shopVars, callVars>>
    /\ UNCHANGED <<now, crashed, products, pc, query, adapter, batch, idx, response,
                   calls, answers, reads, lastUpsert>>

\* the rows of one product in price_history
RowsOf(id) == {k \in 1..Len(price_history) : price_history[k].product_id = id}

\* ORDER BY timestamp DESC LIMIT 5: any five rows that no row left out is newer than
RecentRows(id) ==
    LET all == RowsOf(id)
        n == IF Cardinality(all) < 5 THEN Cardinality(all) ELSE 5
    IN {T \in SUBSET all :
          /\ Cardinality(T) = n
          /\ \A k \in T, j \in all \ T :
                price_history[k].timestamp >= price_history[j].timestamp}

RECURSIVE RowSeq(_)
\* the rows of a result set, as a sequence
RowSeq(T) ==
    IF T = {} THEN <<>>
    ELSE LET k == MaxOf(T) IN <<price_history[k]>> \o RowSeq(T \ {k})

\* lines 142-150 and 274-306: the query of getPricePrediction runs; its callback
\* resolves the promise and the search goes on in the same turn: it stores the
\* prediction, formats the price and either asks for the next product's prediction
\* or sorts, returns and lets the handler answer
DbAllSelect(st) ==
    /\ ~crashed
    /\ st \in pending
    /\ st.op = "select"
    /\ \E io \in IoOutcomes, T \in RecentRows(st.args.product_id) :
        LET s == st.s
            a == st.a
            i == st.i
            rows == RowSeq(T)
            product == batch[s][a][i]
        IN /\ storeErrors' = IF io THEN storeErrors + 1 ELSE storeErrors
           /\ failed' = IF io THEN failed \cup {[op |-> "select", by |-> <<s, a, i>>]}
                        ELSE failed
           /\ reads' = IF io THEN reads
                       ELSE reads \cup {[by |-> <<s, a, i>>,
                                         own |-> \E k \in T : price_history[k].by = <<s, a, i>>]}
           /\ IF ~io /\ PredictionThrows(rows, st.args.currentPrice)
              THEN \* line 289 throws inside the driver's callback: nothing catches it
                   /\ crashed' = TRUE
                   /\ pending' = pending \ {st}
                   /\ UNCHANGED <<pc, adapter, batch, idx, response, calls>>
              ELSE LET prediction == IF io THEN "neutral"
                                     ELSE Prediction(rows, st.args.currentPrice)
                       predicted == [product EXCEPT !.prediction = Str(prediction)]
                   IN /\ UNCHANGED crashed
                      /\ IF Truthy(predicted.price) /\ ~IsString(predicted.price)
                         THEN \* line 144: includes is not a function, caught at line 152
                              /\ batch' = [batch EXCEPT ![s][a][i] = predicted]
                              /\ pending' = pending \ {st}
                              /\ NextProvider(s)
                              /\ UNCHANGED idx
                         ELSE LET formatted ==
                                      IF Truthy(predicted.price)
                                         /\ ~includes(predicted.price.v, <<Rupee>>)
                                      THEN [predicted EXCEPT !.price = FormatPrice(@)]
                                      ELSE predicted
                                  list == [batch[s][a] EXCEPT ![i] = formatted]
                              IN /\ batch' = [batch EXCEPT ![s][a] = list]
                                 /\ IF i < Len(list)
                                    THEN /\ pending' = (pending \ {st}) \cup
                                              {SelectStatement(s, a, i + 1, list[i + 1])}
                                         /\ idx' = [idx EXCEPT ![s] = i + 1]
                                         /\ UNCHANGED <<pc, adapter, response, calls>>
                                    ELSE /\ pending' = pending \ {st}
                                         /\ UNCHANGED idx
                                         /\ IF SortThrows(list, query[s].v)
                                            THEN NextProvider(s)
                                            ELSE /\ pc' = [pc EXCEPT ![s] = "done"]
                                                 /\ response' = [response EXCEPT ![s] =
                                                      Http(200, "",
                                                           filterAndSortProducts(list, query[s].v))]
                                                 /\ UNCHANGED <<adapter, calls>>
    /\ UNCHANGED <<shopVars, callVars>>
    /\ UNCHANGED <<now, products, price_history, query, answers, lastUpsert>>

Next ==
    \/ \E s \in Searches : SearchRequest(s)
    \/ \E s \in Searches : AdapterFails(s)
    \/ \E s \in Searches : AdapterResponds(s)
    \/ \E st \in pending : DbRunUpsert(st)
    \/ \E st \in pending : DbRunHistory(st)
    \/ \E st \in pending : DbAllSelect(st)

Spec == Init /\ [][Next]_vars

\* the server restarted on a database that earlier searches filled
SpecRestart == InitRestart /\ [][Next]_vars

\* One search on the restarted server. A search makes at most three provider
\* calls, so MaxCalls never holds a call back.
NextOneSearch ==
    \/ SearchRequest(1)
    \/ AdapterFails(1)
    \/ AdapterResponds(1)
    \/ \E st \in pending : DbRunUpsert(st)
    \/ \E st \in pending : DbRunHistory(st)
    \/ \E st \in pending : DbAllSelect(st)

SpecOneSearch == InitRestart /\ [][NextOneSearch]_vars

(***************************************************************************)
(* getPricePrediction called on a stored price history.                    *)
(***************************************************************************)
\* the product whose history is read
Pid == ProductId(ItemPlain.title, ItemPlain.source, ItemPlain.product_link)

\* price texts found in price_history: two that parse and one that does not
HistoryPrices == {Str(<<"1", "0", "0">>), Str(<<"5", "0">>), Str(<<"x">>)}

\* currentPrice: texts that parse, one that does not, and no price at all
CurrentPrices ==
    {Str(<<"9", "4">>), Str(<<"9", "6">>), Str(<<"7", "0">>), Str(<<"8", "3">>),
     Str(<<"x">>), Undefined}

\* the rows were written oldest first, newest first, or within one millisecond
StampPatterns(n) == {[k \in 1..n |-> k], [k \in 1..n |-> n - k], [k \in 1..n |-> 0]}

Histories ==
    UNION {{[k \in 1..n |-> [product_id |-> Pid, price |-> ps[k], timestamp |-> ts[k],
                              by |-> <<0, 0, 0>>]] :
                ps \in [1..n -> HistoryPrices], ts \in StampPatterns(n)} :
           n \in 0..MaxHistory}

InitClassify ==
    \E h \in Histories : InitOn([EmptyDatabase EXCEPT !.price_history = h])

\* lines 272-308: the call of getPricePrediction under study; the query and its callback
GetPricePrediction(productId, currentPrice) ==
    /\ ~crashed
    /\ arg = <<>>
    /\ \E io \in IoOutcomes, T \in RecentRows(productId) :
        LET rows == RowSeq(T)
            throws == ~io /\ PredictionThrows(rows, currentPrice)
        IN /\ storeErrors' = IF io THEN storeErrors + 1 ELSE storeErrors
           /\ arg' = <<productId, currentPrice>>
           /\ result' = [err |-> io,
                         rows |-> IF io THEN {} ELSE T,
                         prediction |-> IF io THEN "neutral"
                                        ELSE IF throws THEN "TypeError"
                                        ELSE Prediction(rows, currentPrice)]
           \* line 289 throws inside the driver's callback: nothing catches it
           /\ crashed' = throws
    /\ UNCHANGED <<now, products, price_history, pending, pc, query, adapter, batch, idx,
                   response, calls, answers, reads, failed, lastUpsert>>
    /\ UNCHANGED shopVars

NextClassify == \E c \in CurrentPrices : GetPricePrediction(Pid, c)

SpecClassify == InitClassify /\ [][NextClassify]_vars

(***************************************************************************)
(* filterAndSortProducts called on a product list.                         *)
(***************************************************************************)
RankTitles ==
    {<<"i", "P", "h", "o", "n", "e", " ", "1", "5", " ", "P", "r", "o">>,
     <<"i", "P", "h", "o", "n", "e", " ", "1", "5", " ", "c", "a", "s", "e">>,
     <<"S", "a", "m", "s", "u", "n", "g", " ", "S", "2", "5">>}

\* price texts, one of them zero, and a product without price
RankPrices ==
    {Str(<<"8", "0", "0", "0", "0">>), Str(<<"5", "0", "0">>), Str(<<"7", "0", "0", "0", "0">>), Str(<<"0">>), Undefined}

RankItems == {[title |-> Str(t), price |-> p] : t \in RankTitles, p \in RankPrices}

\* the query in lower case, and one with capitals and surplus blanks
RankQueries ==
    {<<"i", "p", "h", "o", "n", "e", " ", "1", "5">>,
     <<"S", "a", "m", "s", "u", "n", "g", " ", " ", "S", "2", "5", " ">>}

RankLists == UNION {[1..n -> RankItems] : n \in 0..MaxRanked}

\* lines 311-331: the call of filterAndSortProducts under study
Rank ==
    /\ arg = <<>>
    /\ \E list \in RankLists, q \in RankQueries :
        /\ arg' = <<list, q>>
        /\ result' = [threw |-> SortThrows(list, q),
                      out |-> IF SortThrows(list, q) THEN <<>>
                              ELSE filterAndSortProducts(list, q),
                      again |-> <<>>,
                      twice |-> FALSE]
    /\ UNCHANGED <<searchVars, shopVars>>

\* the returned list is ranked once more with the same query
RankAgain ==
    /\ arg # <<>>
    /\ ~result.threw
    /\ ~result.twice
    /\ result' = [result EXCEPT !.again = filterAndSortProducts(result.out, arg[2]),
                                !.twice = TRUE]
    /\ UNCHANGED <<searchVars, shopVars, arg>>

NextRank == Rank \/ RankAgain

SpecRank == Init /\ [][NextRank]_vars

(***************************************************************************)
(* The id expression of the mappings, evaluated for two listings.          *)
(***************************************************************************)
ListingTitles == {Str(<<"a">>), Str(<<"A">>), Str(<<"a", "-", "b">>)}
ListingSources == {Str(<<"c">>), Str(<<"b", "-", "c">>)}
ListingLinks == {Str(<<"l">>), Str(<<"m">>)}

ListingTriples ==
    {[title |-> t, source |-> c, link |-> l] :
        t \in ListingTitles, c \in ListingSources, l \in ListingLinks}

\* line 113: the ids of two listings
ResolveIds ==
    /\ arg = <<>>
    /\ \E x \in ListingTriples, y \in ListingTriples :
        /\ arg' = <<x, y>>
        /\ result' = <<ProductId(x.title, x.source, x.link),
                       ProductId(y.title, y.source, y.link)>>
    /\ UNCHANGED <<searchVars, shopVars>>

NextIdentity == ResolveIds

SpecIdentity == Init /\ [][NextIdentity]_vars

(***************************************************************************)
(* The mapping of one provider's results array.                            *)
(***************************************************************************)
\* listings with and without price, thumbnail and rating
MappedItems ==
    {[ItemPlain EXCEPT !.price = p, !.thumbnail = t, !.rating = r] :
        p \in {Undefined, ItemPlain.price}, t \in {Undefined, ItemPlain.thumbnail},
        r \in {Undefined, ItemPlain.rating}}
MappedLists == UNION {[1..n -> MappedItems] : n \in 0..MaxItems}

\* lines 111-119, 166-174 and 221-231: adapter a builds its products
MapCall ==
    /\ arg = <<>>
    /\ \E a \in 1..3, items \in MappedLists :
        /\ arg' = <<a, items>>
        /\ result' = MapResults(a, items)
    /\ UNCHANGED <<searchVars, shopVars>>

NextAdapter == MapCall

SpecAdapter == Init /\ [][NextAdapter]_vars

(***************************************************************************)
(* The shop: accounts, wishlists, carts and the price drop worker.         *)
(***************************************************************************)
\* what clients send
UserIds == {Undefined, Num(1), Num(2)}
UnknownProduct == Str(<<"z">>)
ReminderPrices ==
    {Undefined, Str(<<Rupee, "5", "0", "0", "0", "0">>),
     Str(<<Rupee, "4", "5", "0", "0", "0">>),
     Str(<<Rupee, "4", "0", "0", "0", "0">>), Str(<<"x">>)}
\* the bodies of /wishlist/add, /wishlist/remove and /cart/remove
PairInputs ==
    {[userId |-> u, productId |-> p] :
        u \in UserIds \ {Undefined}, p \in {Pid, UnknownProduct}}
        \cup {[userId |-> Undefined, productId |-> Pid]}
\* the bodies of /cart/add
CartAddInputs ==
    {[userId |-> Num(1), productId |-> Pid, reminderPrice |-> r] : r \in ReminderPrices}
        \cup {[userId |-> x.userId, productId |-> x.productId, reminderPrice |-> Undefined] :
                 x \in PairInputs}
\* the bodies of /register and /login
Emails == {Str(<<"u">>), Str(<<"v">>)}
Passwords == {Str(<<"p">>), Str(<<"q">>)}
RegisterInputs ==
    {[name |-> Str(<<"n">>), email |-> e, password |-> Str(<<"p">>)] :
        e \in Emails \cup {Undefined}}
LoginInputs ==
    {[email |-> Str(<<"u">>), password |-> w] : w \in Passwords}
        \cup {[email |-> Str(<<"v">>), password |-> Str(<<"p">>)],
              [email |-> Undefined, password |-> Str(<<"p">>)]}

\* bcrypt.hash and bcrypt.compare: the hash is a text that only its password matches
Hash(password) == Str(<<"$">> \o password.v)
Compare(password, hash) == hash = Hash(password)

\* the price the product was last seen at when the server starts
PriceAtStart == Str(<<Rupee, "4", "5", "0", "0", "0">>)

\* the database of a server that has run before: the listing ItemPlain seen once
\* at 45000 rupees, and one registered customer
ShopDatabase ==
    [products |->
        {[id |-> Pid, title |-> ItemPlain.title, thumbnail |-> ItemPlain.thumbnail,
          link |-> ItemPlain.product_link, source |-> ItemPlain.source,
          last_price |-> PriceAtStart, last_updated |-> 0, by |-> <<0, 0, 0>>]},
     price_history |->
        <<[product_id |-> Pid, price |-> PriceAtStart, timestamp |-> 0,
           by |-> <<0, 0, 0>>]>>,
     customers |->
        {[id |-> 1, name |-> Str(<<"n">>), email |-> Str(<<"u">>),
          password_hash |-> Hash(Str(<<"p">>)), created_at |-> 0]}]

InitShop == InitOn(ShopDatabase)

\* a statement handed to the driver by request or sweep n
Statement(op, n, args) == [op |-> op, s |-> n, a |-> 0, i |-> 0, args |-> args]

Json(status, message) == Http(status, "", <<message>>)

\* a request arrives while the server is up
Arrives == ~crashed /\ Len(replies) < MaxRequests

\* the request is answered at once / has to wait for the database
AnswerNow(r) == replies' = Append(replies, r) /\ UNCHANGED pending
Ask(st) == replies' = Append(replies, NoResponse) /\ pending' = pending \cup {st}

\* the callback of statement st answers the request, and may hand on a statement
AnswerLater(st, r) ==
    /\ replies' = [replies EXCEPT ![st.s] = r]
    /\ pending' = pending \ {st}
AskOn(st, next) == pending' = (pending \ {st}) \cup {next} /\ UNCHANGED replies

\* a statement of kind op runs, with or without I/O error
Runs(st, op) == ~crashed /\ st \in pending /\ st.op = op
Io(io) == storeErrors' = IF io THEN storeErrors + 1 ELSE storeErrors

\* lines 475-481: POST /register, up to the INSERT
Register(in) ==
    /\ Arrives
    /\ IF ~Truthy(in.name) \/ ~Truthy(in.email) \/ ~Truthy(in.password)
       THEN AnswerNow(Http(400, "Name, email, and password are required.", <<>>))
       ELSE Ask(Statement("register", Len(replies) + 1,
                    [name |-> Bind(in.name), email |-> Bind(in.email),
                     password_hash |-> Hash(in.password), created_at |-> now]))
    /\ UNCHANGED <<now, crashed, storeErrors, products, price_history, pc, query, adapter,
                   batch, idx, response, calls, answers, reads, failed, lastUpsert>>
    /\ UNCHANGED <<customers, cart, wishlists, sweeps, mailing, outbox, sweepLog, cleared>>
    /\ UNCHANGED callVars

\* lines 481-492: the INSERT INTO customers runs; email is UNIQUE, id is AUTOINCREMENT
DbRunRegister(st) ==
    /\ Runs(st, "register")
    /\ \E io \in IoOutcomes :
        /\ Io(io)
        /\ IF io
           THEN /\ AnswerLater(st, Http(500, "Registration failed.", <<>>))
                /\ UNCHANGED <<customers, mailing>>
           ELSE IF \E c \in customers : c.email = st.args.email
           THEN /\ AnswerLater(st, Http(409, "Email already registered.", <<>>))
                /\ UNCHANGED <<customers, mailing>>
           ELSE /\ customers' = customers \cup
                       {[id |-> Cardinality(customers) + 1, name |-> st.args.name,
                         email |-> st.args.email,
                         password_hash |-> st.args.password_hash,
                         created_at |-> st.args.created_at]}
                \* line 490: await sendWelcomeEmail
                /\ mailing' = mailing \cup
                       {[kind |-> "welcome", s |-> st.s, to |-> st.args.email,
                         user_id |-> Null, product_id |-> Null, by |-> 0]}
                /\ pending' = pending \ {st}
                /\ UNCHANGED replies
    /\ UNCHANGED <<now, crashed, products, price_history, pc, query, adapter,
                   batch, idx, response, calls, answers, reads, failed, lastUpsert>>
    /\ UNCHANGED <<cart, wishlists, sweeps, outbox, sweepLog, cleared>>
    /\ UNCHANGED callVars

\* lines 497-502: POST /login, up to the SELECT
Login(in) ==
    /\ Arrives
    /\ IF ~Truthy(in.email) \/ ~Truthy(in.password)
       THEN AnswerNow(Http(400, "Email and password are required.", <<>>))
       ELSE Ask(Statement("login", Len(replies) + 1,
                    [email |-> Bind(in.email), password |-> in.password]))
    /\ UNCHANGED <<now, crashed, storeErrors, products, price_history, pc, query, adapter,
                   batch, idx, response, calls, answers, reads, failed, lastUpsert>>
    /\ UNCHANGED <<customers, cart, wishlists, sweeps, mailing, outbox, sweepLog, cleared>>
    /\ UNCHANGED callVars

\* lines 502-512: the SELECT of /login runs
DbGetLogin(st) ==
    /\ Runs(st, "login")
    /\ \E io \in IoOutcomes :
        /\ Io(io)
        /\ LET found == {c \in customers : c.email = st.args.email}
           IN IF io \/ found = {}
                 \/ \E c \in found : ~Compare(st.args.password, c.password_hash)
              THEN AnswerLater(st, Http(401, "Invalid email or password.", <<>>))
              ELSE \E c \in found :
                      AnswerLater(st, Http(200, "", <<Num(c.id), c.name, c.email>>))
    /\ UNCHANGED <<now, crashed, products, price_history, pc, query, adapter,
                   batch, idx, response, calls, answers, reads, failed, lastUpsert>>
    /\ UNCHANGED <<customers, cart, wishlists, sweeps, mailing, outbox, sweepLog, cleared>>
    /\ UNCHANGED callVars

\* a missing user or product id
PairMissing(in) == ~Truthy(in.userId) \/ ~Truthy(in.productId)
PairRequired == Http(400, "User ID and Product ID are required.", <<>>)
SamePair(row, args) == row.user_id = args.user_id /\ row.product_id = args.product_id

\* lines 420-426: POST /wishlist/add, up to the INSERT
WishlistAdd(in) ==
    /\ Arrives
    /\ IF PairMissing(in)
       THEN AnswerNow(PairRequired)
       ELSE Ask(Statement("wishlistAdd", Len(replies) + 1,
                    [user_id |-> Bind(in.userId), product_id |-> Bind(in.productId),
                     added_at |-> now, by |-> Len(replies) + 1]))
    /\ UNCHANGED <<now, crashed, storeErrors, products, price_history, pc, query, adapter,
                   batch, idx, response, calls, answers, reads, failed, lastUpsert>>
    /\ UNCHANGED <<customers, cart, wishlists, sweeps, mailing, outbox, sweepLog, cleared>>
    /\ UNCHANGED callVars

\* DbRunWishlistAdd with INSERT OR REPLACE: a later add takes the place of the
\* entry and reports it as added
DbRunWishlistAddReplacing(st) ==
    /\ Runs(st, "wishlistAdd")
    /\ \E io \in IoOutcomes :
        /\ Io(io)
        /\ IF io
           THEN /\ AnswerLater(st, Http(500, "Failed to add to wishlist.", <<>>))
                /\ UNCHANGED wishlists
           ELSE /\ AnswerLater(st, Json(200, "Added to wishlist."))
                /\ wishlists' = {w \in wishlists : ~SamePair(w, st.args)} \cup {st.args}
    /\ UNCHANGED <<now, crashed, products, price_history, pc, query, adapter,
                   batch, idx, response, calls, answers, reads, failed, lastUpsert>>
    /\ UNCHANGED <<customers, cart, sweeps, mailing, outbox, sweepLog, cleared>>
    /\ UNCHANGED callVars

\* lines 426-435: INSERT OR IGNORE INTO wishlists runs
DbRunWishlistAdd(st) ==
    /\ Runs(st, "wishlistAdd")
    /\ \E io \in IoOutcomes :
        /\ Io(io)
        /\ IF io
           THEN /\ AnswerLater(st, Http(500, "Failed to add to wishlist.", <<>>))
                /\ UNCHANGED wishlists
           ELSE IF \E w \in wishlists : SamePair(w, st.args)
           THEN /\ AnswerLater(st, Json(200, "Already in wishlist."))
                /\ UNCHANGED wishlists
           ELSE /\ AnswerLater(st, Json(200, "Added to wishlist."))
                /\ wishlists' = wishlists \cup {st.args}
    /\ UNCHANGED <<now, crashed, products, price_history, pc, query, adapter,
                   batch, idx, response, calls, answers, reads, failed, lastUpsert>>
    /\ UNCHANGED <<customers, cart, sweeps, mailing, outbox, sweepLog, cleared>>
    /\ UNCHANGED callVars

\* lines 439-444: GET /wishlist, up to the SELECT
WishlistGet(userId) ==
    /\ Arrives
    /\ IF ~Truthy(userId)
       THEN AnswerNow(Http(400, "User ID is required.", <<>>))
       ELSE Ask(Statement("wishlistGet", Len(replies) + 1, [user_id |-> Bind(userId)]))
    /\ UNCHANGED <<now, crashed, storeErrors, products, price_history, pc, query, adapter,
                   batch, idx, response, calls, answers, reads, failed, lastUpsert>>
    /\ UNCHANGED <<customers, cart, wishlists, sweeps, mailing, outbox, sweepLog, cleared>>
    /\ UNCHANGED callVars

\* the rows of a join with products, in rowid order of the joined table
RECURSIVE JoinRows(_)
JoinRows(S) ==
    IF S = {} THEN <<>>
    ELSE LET r == CHOOSE x \in S : \A y \in S : x.by <= y.by
         IN <<r>> \o JoinRows(S \ {r})

\* lines 444-455: the SELECT of /wishlist runs and every row gets its prediction
\* (the queries of getPricePrediction are taken to run before any other statement)
DbAllWishlistGet(st) ==
    /\ Runs(st, "wishlistGet")
    /\ \E io \in IoOutcomes :
        /\ Io(io)
        /\ LET joined == {j \in [w : wishlists, p : products] :
                             /\ j.w.user_id = st.args.user_id
                             /\ j.w.product_id = j.p.id}
               rows == JoinRows({[id |-> j.p.id, title |-> j.p.title,
                                  last_price |-> j.p.last_price,
                                  added_at |-> j.w.added_at, by |-> j.w.by] : j \in joined})
               history(row) == RowSeq(CHOOSE T \in RecentRows(row.id) : TRUE)
               throws == \E k \in 1..Len(rows) :
                            PredictionThrows(history(rows[k]), rows[k].last_price)
           IN IF io
              THEN /\ AnswerLater(st, Http(500, "Failed to fetch wishlist.", <<>>))
                   /\ UNCHANGED crashed
              ELSE IF throws
              THEN \* line 288: last_price is NULL, replace is not a function
                   /\ crashed' = TRUE
                   /\ pending' = pending \ {st}
                   /\ UNCHANGED replies
              ELSE /\ AnswerLater(st, Http(200, "",
                          [k \in 1..Len(rows) |->
                              [id |-> rows[k].id, title |-> rows[k].title,
                               last_price |-> rows[k].last_price,
                               added_at |-> rows[k].added_at,
                               prediction |-> Prediction(history(rows[k]),
                                                         rows[k].last_price)]]))
                   /\ UNCHANGED crashed
    /\ UNCHANGED <<now, products, price_history, pc, query, adapter,
                   batch, idx, response, calls, answers, reads, failed, lastUpsert>>
    /\ UNCHANGED <<customers, cart, wishlists, sweeps, mailing, outbox, sweepLog, cleared>>
    /\ UNCHANGED callVars

\* lines 458-463: DELETE /wishlist/remove, up to the DELETE
WishlistRemove(in) ==
    /\ Arrives
    /\ IF PairMissing(in)
       THEN AnswerNow(PairRequired)
       ELSE Ask(Statement("wishlistRemove", Len(replies) + 1,
                    [user_id |-> Bind(in.userId), product_id |-> Bind(in.productId)]))
    /\ UNCHANGED <<now, crashed, storeErrors, products, price_history, pc, query, adapter,
                   batch, idx, response, calls, answers, reads, failed, lastUpsert>>
    /\ UNCHANGED <<customers, cart, wishlists, sweeps, mailing, outbox, sweepLog, cleared>>
    /\ UNCHANGED callVars

\* lines 464-470: DELETE FROM wishlists runs
DbRunWishlistRemove(st) ==
    /\ Runs(st, "wishlistRemove")
    /\ \E io \in IoOutcomes :
        /\ Io(io)
        /\ IF io
           THEN /\ AnswerLater(st, Http(500, "Failed to remove from wishlist.", <<>>))
                /\ UNCHANGED wishlists
           ELSE /\ AnswerLater(st, Json(200,
                       IF \E w \in wishlists : SamePair(w, st.args)
                       THEN "Removed from wishlist." ELSE "Not found in wishlist."))
                /\ wishlists' = {w \in wishlists : ~SamePair(w, st.args)}
    /\ UNCHANGED <<now, crashed, products, price_history, pc, query, adapter,
                   batch, idx, response, calls, answers, reads, failed, lastUpsert>>
    /\ UNCHANGED <<customers, cart, sweeps, mailing, outbox, sweepLog, cleared>>
    /\ UNCHANGED callVars

\* lines 518-522: POST /cart/add, up to the first SELECT
CartAdd(in) ==
    /\ Arrives
    /\ IF PairMissing(in)
       THEN AnswerNow(PairRequired)
       ELSE Ask(Statement("cartProduct", Len(replies) + 1,
                    [user_id |-> Bind(in.userId), product_id |-> Bind(in.productId),
                     reminderPrice |-> in.reminderPrice]))
    /\ UNCHANGED <<now, crashed, storeErrors, products, price_history, pc, query, adapter,
                   batch, idx, response, calls, answers, reads, failed, lastUpsert>>
    /\ UNCHANGED <<customers, cart, wishlists, sweeps, mailing, outbox, sweepLog, cleared>>
    /\ UNCHANGED callVars

\* lines 525-529: SELECT id FROM products runs
DbGetCartProduct(st) ==
    /\ Runs(st, "cartProduct")
    /\ \E io \in IoOutcomes :
        /\ Io(io)
        /\ IF io \/ ~\E p \in products : p.id = st.args.product_id
           THEN AnswerLater(st, Http(404, "Product not found. Please search for it first.",
                                     <<>>))
           ELSE AskOn(st, Statement("cartCustomer", st.s, st.args))
    /\ UNCHANGED <<now, crashed, products, price_history, pc, query, adapter,
                   batch, idx, response, calls, answers, reads, failed, lastUpsert>>
    /\ UNCHANGED <<customers, cart, wishlists, sweeps, mailing, outbox, sweepLog, cleared>>
    /\ UNCHANGED callVars

\* WHERE id = ?: the customers with the id the text or number stands for
CustomerOf(user_id) == {c \in customers : Str(NatToText(c.id)) = user_id}

\* lines 532-540: SELECT id FROM customers runs
DbGetCartCustomer(st) ==
    /\ Runs(st, "cartCustomer")
    /\ \E io \in IoOutcomes :
        /\ Io(io)
        /\ IF io \/ CustomerOf(st.args.user_id) = {}
           THEN AnswerLater(st, Http(404, "User not found. Please log in.", <<>>))
           ELSE AskOn(st, Statement("cartAdd", st.s,
                          [user_id |-> st.args.user_id, product_id |-> st.args.product_id,
                           reminder_price |-> Bind(st.args.reminderPrice),
                           added_at |-> now, by |-> st.s]))
    /\ UNCHANGED <<now, crashed, products, price_history, pc, query, adapter,
                   batch, idx, response, calls, answers, reads, failed, lastUpsert>>
    /\ UNCHANGED <<customers, cart, wishlists, sweeps, mailing, outbox, sweepLog, cleared>>
    /\ UNCHANGED callVars

\* lines 539-548: INSERT OR REPLACE INTO cart runs
DbRunCartAdd(st) ==
    /\ Runs(st, "cartAdd")
    /\ \E io \in IoOutcomes :
        /\ Io(io)
        /\ IF io
           THEN /\ AnswerLater(st, Http(500, "Failed to add to cart.", <<>>))
                /\ UNCHANGED cart
           ELSE /\ AnswerLater(st, Json(200, "Cart updated successfully."))
                /\ cart' = {c \in cart : ~SamePair(c, st.args)} \cup {st.args}
    /\ UNCHANGED <<now, crashed, products, price_history, pc, query, adapter,
                   batch, idx, response, calls, answers, reads, failed, lastUpsert>>
    /\ UNCHANGED <<customers, wishlists, sweeps, mailing, outbox, sweepLog, cleared>>
    /\ UNCHANGED callVars

\* lines 554-558: GET /cart, up to the SELECT
CartGet(userId) ==
    /\ Arrives
    /\ IF ~Truthy(userId)
       THEN AnswerNow(Http(400, "User ID is required.", <<>>))
       ELSE Ask(Statement("cartGet", Len(replies) + 1, [user_id |-> Bind(userId)]))
    /\ UNCHANGED <<now, crashed, storeErrors, products, price_history, pc, query, adapter,
                   batch, idx, response, calls, answers, reads, failed, lastUpsert>>
    /\ UNCHANGED <<customers, cart, wishlists, sweeps, mailing, outbox, sweepLog, cleared>>
    /\ UNCHANGED callVars

\* lines 559-565: the SELECT of /cart runs
DbAllCartGet(st) ==
    /\ Runs(st, "cartGet")
    /\ \E io \in IoOutcomes :
        /\ Io(io)
        /\ LET joined == {j \in [c : cart, p : products] :
                             /\ j.c.user_id = st.args.user_id
                             /\ j.c.product_id = j.p.id}
               rows == JoinRows({[id |-> j.p.id, title |-> j.p.title,
                                  last_price |-> j.p.last_price,
                                  reminder_price |-> j.c.reminder_price,
                                  added_at |-> j.c.added_at, by |-> j.c.by] : j \in joined})
           IN IF io THEN AnswerLater(st, Http(500, "Failed to fetch cart.", <<>>))
              ELSE AnswerLater(st, Http(200, "", rows))
    /\ UNCHANGED <<now, crashed, products, price_history, pc, query, adapter,
                   batch, idx, response, calls, answers, reads, failed, lastUpsert>>
    /\ UNCHANGED <<customers, cart, wishlists, sweeps, mailing, outbox, sweepLog, cleared>>
    /\ UNCHANGED callVars

\* lines 569-573: DELETE /cart/remove, up to the DELETE
CartRemove(in) ==
    /\ Arrives
    /\ IF PairMissing(in)
       THEN AnswerNow(PairRequired)
       ELSE Ask(Statement("cartRemove", Len(replies) + 1,
                    [user_id |-> Bind(in.userId), product_id |-> Bind(in.productId)]))
    /\ UNCHANGED <<now, crashed, storeErrors, products, price_history, pc, query, adapter,
                   batch, idx, response, calls, answers, reads, failed, lastUpsert>>
    /\ UNCHANGED <<customers, cart, wishlists, sweeps, mailing, outbox, sweepLog, cleared>>
    /\ UNCHANGED callVars

\* lines 574-580: DELETE FROM cart runs
DbRunCartRemove(st) ==
    /\ Runs(st, "cartRemove")
    /\ \E io \in IoOutcomes :
        /\ Io(io)
        /\ IF io
           THEN /\ AnswerLater(st, Http(500, "Failed to remove from cart.", <<>>))
                /\ UNCHANGED cart
           ELSE /\ AnswerLater(st, Json(200,
                       IF \E c \in cart : SamePair(c, st.args)
                       THEN "Removed from cart." ELSE "Not found in cart."))
                /\ cart' = {c \in cart : ~SamePair(c, st.args)}
    /\ UNCHANGED <<now, crashed, products, price_history, pc, query, adapter,
                   batch, idx, response, calls, answers, reads, failed, lastUpsert>>
    /\ UNCHANGED <<customers, wishlists, sweeps, mailing, outbox, sweepLog, cleared>>
    /\ UNCHANGED callVars

\* line 608: the timer of the price drop worker fires and hands its SELECT to
\* the driver (sweeps are numbered in the order they start)
SweepTick ==
    /\ ~crashed
    /\ sweeps < MaxSweeps
    /\ sweeps' = sweeps + 1
    /\ pending' = pending \cup {Statement("sweepSelect", sweeps + 1, <<>>)}
    /\ UNCHANGED <<now, crashed, storeErrors, products, price_history, pc, query, adapter,
                   batch, idx, response, calls, answers, reads, failed, lastUpsert>>
    /\ UNCHANGED <<customers, cart, wishlists, replies, mailing, outbox, sweepLog, cleared>>
    /\ UNCHANGED callVars

\* lines 615-619 with the operands of <= exchanged
PriceDroppedReversed(last_price, reminder_price) ==
    LET currentPrice == parseFloat(StripNonNumeric(Or(last_price, Str(<<>>)).v))
        reminderPrice == parseFloat(StripNonNumeric(Or(reminder_price, Str(<<>>)).v))
    IN ~isNaN(currentPrice) /\ ~isNaN(reminderPrice) /\ NumLeq(reminderPrice, currentPrice)

\* lines 615-619: the test the worker makes on a row
PriceDropped(last_price, reminder_price) ==
    LET currentPrice == parseFloat(StripNonNumeric(Or(last_price, Str(<<>>)).v))
        reminderPrice == parseFloat(StripNonNumeric(Or(reminder_price, Str(<<>>)).v))
    IN ~isNaN(currentPrice) /\ ~isNaN(reminderPrice) /\ NumLeq(currentPrice, reminderPrice)

\* line 621: the mail sweep w starts for a row it read (by is history: the
\* request that set the reminder the row carried)
DropMail(w, j) ==
    [kind |-> "drop", s |-> w, to |-> j.cu.email,
     user_id |-> j.c.user_id, product_id |-> j.c.product_id, by |-> j.c.by]

\* lines 609-621: the SELECT of the worker runs; every row that passes the test
\* has its mail started before the callback returns (sweepLog is history: what
\* the sweep read and whether it started a mail for it)
DbAllSweep(st) ==
    /\ Runs(st, "sweepSelect")
    /\ \E io \in IoOutcomes :
        /\ Io(io)
        /\ LET rows == {j \in [c : cart, p : products, cu : customers] :
                           /\ j.c.product_id = j.p.id
                           /\ j.cu \in CustomerOf(j.c.user_id)
                           /\ j.c.reminder_price # Null}
               dropped == {j \in rows : PriceDropped(j.p.last_price, j.c.reminder_price)}
           IN IF io
              THEN UNCHANGED <<mailing, sweepLog>>
              ELSE /\ mailing' = mailing \cup {DropMail(st.s, j) : j \in dropped}
                   /\ sweepLog' = sweepLog \cup
                          {[w |-> st.s, user_id |-> j.c.user_id,
                            product_id |-> j.c.product_id,
                            reminder_price |-> j.c.reminder_price,
                            last_price |-> j.p.last_price, by |-> j.c.by,
                            mailed |-> DropMail(st.s, j) \in mailing'] : j \in rows}
    /\ pending' = pending \ {st}
    /\ UNCHANGED <<now, crashed, products, price_history, pc, query, adapter,
                   batch, idx, response, calls, answers, reads, failed, lastUpsert>>
    /\ UNCHANGED <<customers, cart, wishlists, replies, sweeps, outbox, cleared>>
    /\ UNCHANGED callVars

\* lines 599-604 and 490-491, 650-655 and 621-629: sendMail settles; a failure
\* is only logged. After the welcome mail the registration is answered, after
\* a price drop mail the UPDATE that clears the reminder is handed to the driver
MailDone(m) ==
    /\ ~crashed
    /\ m \in mailing
    /\ mailing' = mailing \ {m}
    /\ \E ok \in BOOLEAN : outbox' = IF ok THEN outbox \cup {m} ELSE outbox
    /\ IF m.kind = "welcome"
       THEN /\ replies' = [replies EXCEPT ![m.s] = Json(200, "Registration successful!")]
            /\ UNCHANGED pending
       ELSE /\ pending' = pending \cup
                   {Statement("clear", m.s,
                        [user_id |-> m.user_id, product_id |-> m.product_id,
                         by |-> m.by])}
            /\ UNCHANGED replies
    /\ UNCHANGED <<now, crashed, storeErrors, products, price_history, pc, query, adapter,
                   batch, idx, response, calls, answers, reads, failed, lastUpsert>>
    /\ UNCHANGED <<customers, cart, wishlists, sweeps, sweepLog, cleared>>
    /\ UNCHANGED callVars

\* lines 623-629: UPDATE cart SET reminder_price = NULL runs; an error is only
\* logged (cleared is history: the reminders the UPDATE found on the row)
DbRunClear(st) ==
    /\ Runs(st, "clear")
    /\ \E io \in IoOutcomes :
        /\ Io(io)
        /\ IF io
           THEN UNCHANGED <<cart, cleared>>
           ELSE /\ cart' = {IF SamePair(c, st.args)
                            THEN [c EXCEPT !.reminder_price = Null] ELSE c : c \in cart}
                /\ cleared' = cleared \cup
                       {[w |-> st.s, user_id |-> c.user_id, product_id |-> c.product_id,
                         reminder_price |-> c.reminder_price, by |-> c.by, for |-> st.args.by] :
                            c \in {d \in cart : SamePair(d, st.args)}}
    /\ pending' = pending \ {st}
    /\ UNCHANGED <<now, crashed, products, price_history, pc, query, adapter,
                   batch, idx, response, calls, answers, reads, failed, lastUpsert>>
    /\ UNCHANGED <<customers, wishlists, replies, sweeps, mailing, outbox, sweepLog>>
    /\ UNCHANGED callVars

\* the requests clients make of the shop, the statements of the shop the driver
\* runs, the mails that settle and the timer of the worker
NextShop ==
    \/ \E in \in RegisterInputs : Register(in)
    \/ \E in \in LoginInputs : Login(in)
    \/ \E in \in PairInputs : WishlistAdd(in)
    \/ \E u \in UserIds : WishlistGet(u)
    \/ \E in \in PairInputs : WishlistRemove(in)
    \/ \E in \in CartAddInputs : CartAdd(in)
    \/ \E u \in UserIds : CartGet(u)
    \/ \E in \in PairInputs : CartRemove(in)
    \/ \E st \in pending : DbRunRegister(st)
    \/ \E st \in pending : DbGetLogin(st)
    \/ \E st \in pending : DbRunWishlistAdd(st)
    \/ \E st \in pending : DbAllWishlistGet(st)
    \/ \E st \in pending : DbRunWishlistRemove(st)
    \/ \E st \in pending : DbGetCartProduct(st)
    \/ \E st \in pending : DbGetCartCustomer(st)
    \/ \E st \in pending : DbRunCartAdd(st)
    \/ \E st \in pending : DbAllCartGet(st)
    \/ \E st \in pending : DbRunCartRemove(st)
    \/ \E st \in pending : DbAllSweep(st)
    \/ \E st \in pending : DbRunClear(st)
    \/ \E m \in mailing : MailDone(m)
    \/ SweepTick

SpecShop == InitShop /\ [][NextShop]_vars

(***************************************************************************)
(* The whole server: searches, the shop and the price drop worker on one   *)
(* database.                                                               *)
(***************************************************************************)
\* the searches, upstream calls, listings, shop requests and sweeps of a run of the whole server
MaxStoreSearches == 1
MaxStoreCalls == 1
MaxStoreListings == 1
MaxStoreRequests == 1
MaxStoreSweeps == 1

StoreSearches == 1..MaxStoreSearches
RequestArrives == Len(replies) < MaxStoreRequests

NextStore ==
    \/ \E s \in StoreSearches : SearchRequest(s)
    \/ \E s \in StoreSearches : AdapterFails(s) /\ AnsweredCalls' <= MaxStoreCalls
    \/ \E s \in StoreSearches :
          AdapterResponds(s) /\ AnsweredCalls' <= MaxStoreCalls
                             /\ Listings' <= MaxStoreListings
    \/ \E st \in pending : DbRunUpsert(st)
    \/ \E st \in pending : DbRunHistory(st)
    \/ \E st \in pending : DbAllSelect(st)
    \/ \E in \in RegisterInputs : RequestArrives /\ Register(in)
    \/ \E in \in LoginInputs : RequestArrives /\ Login(in)
    \/ \E in \in PairInputs : RequestArrives /\ WishlistAdd(in)
    \/ \E u \in UserIds : RequestArrives /\ WishlistGet(u)
    \/ \E in \in PairInputs : RequestArrives /\ WishlistRemove(in)
    \/ \E in \in CartAddInputs : RequestArrives /\ CartAdd(in)
    \/ \E u \in UserIds : RequestArrives /\ CartGet(u)
    \/ \E in \in PairInputs : RequestArrives /\ CartRemove(in)
    \/ \E st \in pending : DbRunRegister(st)
    \/ \E st \in pending : DbGetLogin(st)
    \/ \E st \in pending : DbRunWishlistAdd(st)
    \/ \E st \in pending : DbAllWishlistGet(st)
    \/ \E st \in pending : DbRunWishlistRemove(st)
    \/ \E st \in pending : DbGetCartProduct(st)
    \/ \E st \in pending : DbGetCartCustomer(st)
    \/ \E st \in pending : DbRunCartAdd(st)
    \/ \E st \in pending : DbAllCartGet(st)
    \/ \E st \in pending : DbRunCartRemove(st)
    \/ \E st \in pending : DbAllSweep(st)
    \/ \E st \in pending : DbRunClear(st)
    \/ \E m \in mailing : MailDone(m)
    \/ sweeps < MaxStoreSweeps /\ SweepTick

SpecStore == InitShop /\ [][NextStore]_vars

(***************************************************************************)
(* Vocabulary of the properties.                                           *)
(***************************************************************************)
ProviderOrder == <<1, 2, 3>>

IsPrefix(p, q) == Len(p) <= Len(q) /\ \A k \in 1..Len(p) : p[k] = q[k]

\* a is b in another order
IsPermutation(a, b) ==
    /\ Len(a) = Len(b)
    /\ \E f \in [1..Len(a) -> 1..Len(a)] :
        /\ \A j, k \in 1..Len(a) : f[j] = f[k] => j = k
        /\ \A k \in 1..Len(a) : a[k] = b[f[k]]

Ids(list) == [k \in 1..Len(list) |-> list[k].id]

\* the products the answer of provider k maps to, as the provider sent them
ResultSet(s, k) ==
    IF k <= Len(answers[s]) /\ answers[s][k].t = "array"
    THEN MapResults(k, answers[s][k].v)
    ELSE <<>>

\* provider k answered an empty result: no results field, or an empty array
AnsweredEmpty(s, k) ==
    k <= Len(answers[s])
    /\ (answers[s][k] = Undefined \/ (answers[s][k].t = "array" /\ answers[s][k].v = <<>>))

AnsweredFailure(s, k) == k <= Len(answers[s]) /\ answers[s][k] = Failed

\* provider k has completed and produced no item
NoItems(s, k) == k <= Len(answers[s]) /\ ResultSet(s, k) = <<>>

Answered(s) == pc[s] = "done" /\ Truthy(query[s])

\* the search returned a list (the handler answers 404 for the empty list)
ReturnedList(s) == Answered(s) /\ response[s].status \in {200, 404}
\* the search threw its "No products found from any source. Please try a different search term." error
ThrewNoResults(s) == Answered(s) /\ response[s].status = 500

RECURSIVE StatusFrom(_, _, _)
\* the status the answers of the providers k, k+1, ... lead to when a provider
\* that failed counts as one without results field (0: provider k has not answered)
StatusFrom(ans, k, q) ==
    IF k > 3 THEN 500
    ELSE IF k > Len(ans) THEN 0
    ELSE IF ans[k].t # "array" THEN StatusFrom(ans, k + 1, q)
    ELSE LET list == MapResults(k, ans[k].v)
         IN IF list = <<>> THEN 404
            ELSE IF \/ \E i \in 1..Len(list) :
                          Truthy(list[i].price) /\ ~IsString(list[i].price)
                    \/ SortThrows(list, q)
                 THEN StatusFrom(ans, k + 1, q)
                 ELSE 200

\* the statements of batch a of search s that write (upsert or price point) are done
WritesDone(s, a) ==
    \A st \in pending : st.op \in {"upsert", "history"} => <<st.s, st.a>> # <<s, a>>

WritesDoneFor(ref) ==
    \A st \in pending : st.op \in {"upsert", "history"} => <<st.s, st.a, st.i>> # ref

PricePointsBy(ref) == {k \in 1..Len(price_history) : price_history[k].by = ref}

HasStoredProduct(id) == \E r \in products : r.id = id

\* no column that is NOT NULL gets NULL from this product
Storable(product) ==
    /\ Bind(product.title) # Null
    /\ Bind(product.link) # Null
    /\ Bind(product.price) # Null

(***************************************************************************)
(* C1  The providers of one search are called in the order Google          *)
(* Shopping, Amazon, eBay, each at most once, and a provider is called     *)
(* only when every earlier provider has completed without producing items. *)
(***************************************************************************)
C1_SequentialFallback ==
    \A s \in Searches :
        /\ IsPrefix(calls[s], ProviderOrder)
        /\ \A k \in 1..Len(calls[s]) : \A j \in 1..(k - 1) : NoItems(s, j)

(***************************************************************************)
(* C2  After a provider that answers an empty result (no results field or  *)
(* an empty array) the next provider is called; when the first two         *)
(* providers failed or were empty and eBay produced items, the search      *)
(* returns eBay's items.                                                   *)
(***************************************************************************)
C2_EmptyFallsBack ==
    \A s \in Searches :
        /\ \A k \in 1..2 : AnsweredEmpty(s, k) => Len(calls[s]) > k
        /\ (/\ Answered(s)
            /\ \A k \in 1..2 : AnsweredEmpty(s, k) \/ AnsweredFailure(s, k)
            /\ ResultSet(s, 3) # <<>>)
           => /\ response[s].status = 200
              /\ IsPermutation(Ids(response[s].body), Ids(ResultSet(s, 3)))

(***************************************************************************)
(* C3  A failed provider call is absorbed: the next provider is called     *)
(* (after eBay the search ends with its exhaustion error), and the status  *)
(* of the response is the one the other providers' answers determine.      *)
(***************************************************************************)
C3_FailureAbsorbed ==
    \A s \in Searches :
        /\ \A k \in 1..Len(answers[s]) :
              AnsweredFailure(s, k) =>
                  IF k < 3 THEN Len(calls[s]) > k /\ calls[s][k + 1] = k + 1
                  ELSE ThrewNoResults(s)
        /\ Answered(s) => response[s].status = StatusFrom(answers[s], 1, query[s].v)

C3_Witness ==
    \E s \in Searches :
        /\ AnsweredFailure(s, 1)
        /\ AnsweredFailure(s, 2)
        /\ Answered(s)
        /\ response[s].status = 200
        /\ adapter[s] = 3

(***************************************************************************)
(* C4  The search throws its exhaustion error exactly when each of the     *)
(* three providers failed or answered empty, and a list it returns is      *)
(* never empty.                                                            *)
(***************************************************************************)
C4_NoResultsIffExhausted ==
    \A s \in Searches :
        Answered(s) =>
            /\ ThrewNoResults(s) <=>
                  \A k \in 1..3 : AnsweredFailure(s, k) \/ AnsweredEmpty(s, k)
            /\ ReturnedList(s) => response[s].status = 200 /\ response[s].body # <<>>

(***************************************************************************)
(* C5  GET /search with a non-empty q answers with a populated list or     *)
(* with the 404 "no products found"; it never answers 500.                 *)
(***************************************************************************)
C5_ListOrNotFound ==
    \A s \in Searches :
        Answered(s) =>
            \/ response[s].status = 200 /\ response[s].body # <<>>
            \/ response[s].status = 404

(***************************************************************************)
(* C6  Once the writes of a result set are done and no statement met an    *)
(* I/O error, every product of the set has a row in products and exactly   *)
(* one price point of its own.  As claimed: for every product of the       *)
(* winning result set.  As amended: for every product whose title, link    *)
(* and price are present.                                                  *)
(***************************************************************************)
C6_EveryItemStored ==
    \A s \in Searches :
        (/\ Answered(s)
         /\ response[s].status = 200
         /\ WritesDone(s, adapter[s])
         /\ storeErrors = 0)
        => \A i \in 1..Len(batch[s][adapter[s]]) :
              /\ HasStoredProduct(batch[s][adapter[s]][i].id)
              /\ Cardinality(PricePointsBy(<<s, adapter[s], i>>)) = 1

C6_EveryStorableItemStored ==
    \A s \in Searches : \A a \in 1..3 :
        (WritesDone(s, a) /\ storeErrors = 0)
        => \A i \in 1..Len(batch[s][a]) :
              IF Storable(batch[s][a][i])
              THEN /\ HasStoredProduct(batch[s][a][i].id)
                   /\ Cardinality(PricePointsBy(<<s, a, i>>)) = 1
              ELSE PricePointsBy(<<s, a, i>>) = {}

C6_Witness ==
    \E s \in Searches :
        /\ Answered(s)
        /\ response[s].status = 200
        /\ Len(batch[s][adapter[s]]) = 2
        /\ WritesDone(s, adapter[s])
        /\ storeErrors = 0
        /\ \A i \in 1..2 :
              /\ Storable(batch[s][adapter[s]][i])
              /\ HasStoredProduct(batch[s][adapter[s]][i].id)
              /\ Cardinality(PricePointsBy(<<s, adapter[s], i>>)) = 1

(***************************************************************************)
(* C7  The history a product is classified from holds the price point the  *)
(* same search wrote for it.                                               *)
(***************************************************************************)
C7_StoreBeforeClassify == \A r \in reads : r.own

(***************************************************************************)
(* C8  Every price a search writes, last_price and the price of a price    *)
(* point, is the price text the provider sent.                             *)
(***************************************************************************)
C8_RawPriceStored ==
    /\ \A r \in products :
          r.by[1] \in Searches =>
              r.last_price = Bind(ResultSet(r.by[1], r.by[2])[r.by[3]].price)
    /\ \A k \in 1..Len(price_history) :
          LET r == price_history[k]
          IN r.by[1] \in Searches =>
                r.price = Bind(ResultSet(r.by[1], r.by[2])[r.by[3]].price)

(***************************************************************************)
(* C9  A failed upsert or price point insert of one product is absorbed:   *)
(* the other products of the batch are written all the same, and the       *)
(* response is the one the providers' answers determine, with every        *)
(* product of the winning result set.                                      *)
(***************************************************************************)
C9_StoreFailureAbsorbed ==
    \A f \in failed :
        f.op \in {"upsert", "history"} =>
            LET s == f.by[1]
                a == f.by[2]
            IN /\ \A j \in 1..Len(batch[s][a]) :
                    (/\ j # f.by[3]
                     /\ WritesDoneFor(<<s, a, j>>)
                     /\ Storable(batch[s][a][j])
                     /\ \A g \in failed : g.by # <<s, a, j>>)
                    => /\ HasStoredProduct(batch[s][a][j].id)
                       /\ Cardinality(PricePointsBy(<<s, a, j>>)) = 1
               /\ Answered(s) =>
                    /\ response[s].status = StatusFrom(answers[s], 1, query[s].v)
                    /\ response[s].status = 200 =>
                          IsPermutation(Ids(response[s].body), Ids(ResultSet(s, adapter[s])))

C9_Witness ==
    \E f \in failed :
        /\ f.op = "upsert"
        /\ storeErrors = 1
        /\ LET s == f.by[1]
               a == f.by[2]
           IN /\ Len(batch[s][a]) = 2
              /\ \A j \in 1..2 :
                    j # f.by[3] => /\ WritesDoneFor(<<s, a, j>>)
                                   /\ Cardinality(PricePointsBy(<<s, a, j>>)) = 1
              /\ Answered(s)
              /\ response[s].status = 200
              /\ Len(response[s].body) = 2

(***************************************************************************)
(* C10  The products table holds at most one row per id, and the row of an *)
(* id is the one the upsert applied last for that id wrote.                *)
(***************************************************************************)
C10_OneRowLastWriteWins ==
    /\ \A r1, r2 \in products : r1.id = r2.id => r1 = r2
    /\ {r.id : r \in products} = DOMAIN lastUpsert
    /\ \A r \in products : r = lastUpsert[r.id]

\* two searches in flight have both upserted the same id, with different prices
C10_Witness ==
    \E r \in products :
        /\ r.by[1] = 2
        /\ pc[1] # "done"
        /\ pc[2] # "done"
        /\ \E k \in 1..Len(price_history) :
              /\ price_history[k].product_id = r.id
              /\ price_history[k].by[1] = 1
              /\ price_history[k].price # r.last_price

(***************************************************************************)
(* Vocabulary of the classifier's properties.                              *)
(***************************************************************************)
\* the price points of a product that five or more of its price points are newer than
Beyond5(id) ==
    {k \in RowsOf(id) :
        Cardinality({j \in RowsOf(id) :
            price_history[j].timestamp > price_history[k].timestamp}) >= 5}

\* the numbers the price texts of the rows T parse to
ReadPrices(T) == RowPrices(RowSeq(T))

\* the call read the up-to-5 most recent price points of its product
ReadMostRecent ==
    /\ result.rows \subseteq RowsOf(arg[1])
    /\ result.rows \cap Beyond5(arg[1]) = {}
    /\ Cardinality(result.rows) =
          IF Cardinality(RowsOf(arg[1])) < 5 THEN Cardinality(RowsOf(arg[1])) ELSE 5

CurrentNumber == parseFloat(StripNonNumeric(arg[2].v))

\* the first branch that matches, with min, max and avg of the prices and
\* the current price c (both sides of each test multiplied by 100 and by n)
FirstMatch(prices, c) ==
    LET D == MaxOf({c.d} \cup {prices[k].d : k \in 1..Len(prices)})
        n == Len(prices)
        p == [k \in 1..n |-> prices[k].m * Pow10(D - prices[k].d)]
        cur == c.m * Pow10(D - c.d)
        min == MinOf({p[k] : k \in 1..n})
        max == MaxOf({p[k] : k \in 1..n})
        total == SumSeq(p)
    IN CASE 100 * cur <= 105 * min -> "buy"
         [] 100 * cur > 105 * min /\ 100 * cur >= 95 * max -> "wait"
         [] 100 * cur > 105 * min /\ 100 * cur < 95 * max
               /\ 100 * n * cur < 98 * total -> "buy"
         [] 100 * cur > 105 * min /\ 100 * cur < 95 * max
               /\ 100 * n * cur >= 98 * total /\ 100 * n * cur > 102 * total -> "wait"
         [] OTHER -> "neutral"

\* the prices are x, y and z in some order
AreThePrices(prices, x, y, z) ==
    /\ Len(prices) = 3
    /\ \E f \in [1..3 -> 1..3] :
          /\ \A j, k \in 1..3 : f[j] = f[k] => j = k
          /\ <<prices[f[1]], prices[f[2]], prices[f[3]]>> = <<Dec(x, 0), Dec(y, 0), Dec(z, 0)>>

(***************************************************************************)
(* C12  When the query succeeds, at least three of the rows read parse to  *)
(* a price and the current price is a number, the prediction is the first  *)
(* matching branch in the order floor (buy), ceiling (wait), below average *)
(* (buy), above average (wait), else neutral; {100,100,100} with 94 is     *)
(* buy, {100,100,50} with 96 is wait; the rows read are the up-to-5 most   *)
(* recent ones, no older price point is among them.                        *)
(***************************************************************************)
C12_FirstMatchingBranch ==
    (/\ arg # <<>>
     /\ ~result.err
     /\ IsString(arg[2])
     /\ ~isNaN(CurrentNumber)
     /\ Len(ReadPrices(result.rows)) >= 3)
    => /\ ReadMostRecent
       /\ result.prediction = FirstMatch(ReadPrices(result.rows), CurrentNumber)
       /\ (AreThePrices(ReadPrices(result.rows), 100, 100, 100) /\ CurrentNumber = Dec(94, 0))
             => result.prediction = "buy"
       /\ (AreThePrices(ReadPrices(result.rows), 100, 100, 50) /\ CurrentNumber = Dec(96, 0))
             => result.prediction = "wait"

\* six price points, the oldest one a 50 that is not read; the five read hold
\* 100, 100, 50 and two texts that do not parse; 96 is at the ceiling
C12_Witness ==
    /\ arg # <<>>
    /\ ~result.err
    /\ arg[2] = Str(<<"9", "6">>)
    /\ Len(price_history) = 6
    /\ \E k \in Beyond5(Pid) : price_history[k].price = Str(<<"5", "0">>)
    /\ Cardinality(result.rows) = 5
    /\ AreThePrices(ReadPrices(result.rows), 100, 100, 50)
    /\ result.prediction = "wait"

(***************************************************************************)
(* C13  When fewer than three of the up-to-5 most recent price points of   *)
(* the product parse to a price, the prediction is neutral, whatever the   *)
(* current price is (text or not), also for a product without history.     *)
(***************************************************************************)
C13_NeutralOnShortHistory ==
    (arg # <<>> /\ Len(ReadPrices(result.rows)) < 3)
    => /\ result.prediction = "neutral"
       /\ ~result.err => ReadMostRecent

\* two of the five rows read parse, a third parseable price is too old to be read,
\* and the call has no current price
C13_Witness ==
    /\ arg # <<>>
    /\ ~result.err
    /\ arg[2] = Undefined
    /\ Cardinality(result.rows) = 5
    /\ Len(ReadPrices(result.rows)) = 2
    /\ \E k \in Beyond5(Pid) : price_history[k].price = Str(<<"5", "0">>)
    /\ result.prediction = "neutral"

(***************************************************************************)
(* Vocabulary of the ranker's properties.                                  *)
(***************************************************************************)
\* the title contains every non-empty whitespace-delimited token of the lower-cased
\* query and no accessory keyword
Relevant(item) ==
    /\ \A w \in {queryWords(arg[2])[k] : k \in 1..Len(queryWords(arg[2]))} :
          includes(toLowerCase(item.title.v), w)
    /\ \A k \in 1..Len(accessoryKeywords) :
          ~includes(toLowerCase(item.title.v), accessoryKeywords[k])

\* the number the price parses to (NaN for no price)
PriceNumber(item) ==
    IF IsString(item.price) THEN parseFloat(StripNonNumeric(item.price.v)) ELSE NaN

\* a is before b by the two keys: relevance, then price with exactly the prices
\* that do not parse last
RanksBefore(a, b) ==
    \/ Relevant(a) /\ ~Relevant(b)
    \/ /\ Relevant(a) = Relevant(b)
       /\ ~isNaN(PriceNumber(a))
       /\ isNaN(PriceNumber(b)) \/ NumLess(PriceNumber(a), PriceNumber(b))

\* out is list stably sorted by RanksBefore
IsStableSortOf(out, list) ==
    /\ Len(out) = Len(list)
    /\ \E f \in [1..Len(list) -> 1..Len(list)] :
        /\ \A j, k \in 1..Len(list) : f[j] = f[k] => j = k
        /\ \A k \in 1..Len(list) : out[k] = list[f[k]]
        /\ \A j, k \in 1..Len(list) :
              j < k => /\ ~RanksBefore(out[k], out[j])
                       /\ ~RanksBefore(out[j], out[k]) => f[j] < f[k]

Ranked == arg # <<>> /\ ~result.threw

Titles(list) == [k \in 1..Len(list) |-> list[k].title.v]

TitlePro == <<"i", "P", "h", "o", "n", "e", " ", "1", "5", " ", "P", "r", "o">>
TitleCase == <<"i", "P", "h", "o", "n", "e", " ", "1", "5", " ", "c", "a", "s", "e">>
TitleSamsung == <<"S", "a", "m", "s", "u", "n", "g", " ", "S", "2", "5">>

\* the three items of the example, in any input order, ranked for "iphone 15"
ExampleRanked ==
    /\ Ranked
    /\ arg[2] = <<"i", "p", "h", "o", "n", "e", " ", "1", "5">>
    /\ Len(arg[1]) = 3
    /\ {arg[1][k] : k \in 1..3} =
          {[title |-> Str(TitlePro), price |-> Str(<<"8", "0", "0", "0", "0">>)],
           [title |-> Str(TitleCase), price |-> Str(<<"5", "0", "0">>)],
           [title |-> Str(TitleSamsung), price |-> Str(<<"7", "0", "0", "0", "0">>)]}

(***************************************************************************)
(* C14  The output of the ranker is its input stably sorted by relevance   *)
(* (relevant first), then by ascending price, where exactly the prices     *)
(* that do not parse to a number come last.                                *)
(***************************************************************************)
C14_StableSortByRelevanceAndPrice ==
    Ranked => IsStableSortOf(result.out, arg[1])

C16_Permutation ==
    Ranked => IsPermutation(result.out, arg[1])

\* an item that occurs twice and an accessory, in an input that is not in ranked order
C16_Witness ==
    /\ Ranked
    /\ Len(arg[1]) = 3
    /\ arg[1][1] = arg[1][3]
    /\ arg[1][2].title.v = TitleCase
    /\ result.out # arg[1]
    /\ IsPermutation(result.out, arg[1])

(***************************************************************************)
(* C17  Ranking the output of the ranker again with the same query gives   *)
(* the same order.                                                         *)
(***************************************************************************)
C17_Idempotent ==
    (Ranked /\ result.twice) => result.again = result.out

\* the input was reordered by the first ranking and holds two items that tie
C17_Witness ==
    /\ Ranked
    /\ result.twice
    /\ result.out # arg[1]
    /\ \E j, k \in 1..Len(result.out) :
          /\ j # k
          /\ result.out[j] # result.out[k]
          /\ ~SortsBefore(result.out[j], result.out[k], arg[2])
          /\ ~SortsBefore(result.out[k], result.out[j], arg[2])
    /\ result.again = result.out

(***************************************************************************)
(* C18  Two listings have the same id exactly when they have the same      *)
(* title, the same source and the same link.                               *)
(***************************************************************************)
C18_IdentityInjective ==
    arg # <<>> => (result[1] = result[2] <=> arg[1] = arg[2])


(***************************************************************************)
(* The price drop worker.                                                  *)
(***************************************************************************)
ParsesToNumber(price) == IsString(price) /\ ~isNaN(parseFloat(StripNonNumeric(price.v)))
AsNumber(price) == parseFloat(StripNonNumeric(price.v))

\* the row a sweep read has a reminder the product's last price is at or below
Qualifies(e) ==
    /\ ParsesToNumber(e.reminder_price)
    /\ ParsesToNumber(e.last_price)
    /\ NumLeq(AsNumber(e.last_price), AsNumber(e.reminder_price))

\* sweep w read the row of this user and product and started a mail for it
MailedIn(w, x) ==
    \E e \in sweepLog :
        e.w = w /\ e.user_id = x.user_id /\ e.product_id = x.product_id /\ e.mailed

DropMails(S) == {m \in S : m.kind = "drop"}
Clears == {st \in pending : st.op = "clear"}

Reminder50000 == Str(<<Rupee, "5", "0", "0", "0", "0">>)
Reminder40000 == Str(<<Rupee, "4", "0", "0", "0", "0">>)

\* C19: a row a sweep reads (its reminder is not null) has a price drop mail
\* started for it exactly when its reminder and the product's last price both
\* parse to numbers and the last price is at or below the reminder; a mail in
\* flight or delivered, and an UPDATE clearing a reminder, pending or done,
\* belongs to a row its sweep read as qualifying, so a row read as not
\* qualifying gets no mail and no UPDATE from that sweep.
C19_MailIffPriceDropped ==
    /\ \A e \in sweepLog : e.reminder_price # Null /\ (e.mailed <=> Qualifies(e))
    /\ \A m \in DropMails(mailing \cup outbox) : MailedIn(m.s, m)
    /\ \A st \in Clears : MailedIn(st.s, st.args)
    /\ \A x \in cleared : MailedIn(x.w, x)

\* the spec's two examples have happened: a reminder of 50000 rupees on a
\* product at 45000 was mailed and cleared, and a reminder of 40000 rupees on
\* it was read by a later sweep, which left it alone
C19_Witness ==
    /\ \E e \in sweepLog :
        /\ e.reminder_price = Reminder50000 /\ e.last_price = PriceAtStart /\ e.mailed
        /\ \E m \in DropMails(outbox) : m.s = e.w /\ m.by = e.by
        /\ \E x \in cleared : x.w = e.w /\ x.by = e.by
    /\ \E e \in sweepLog :
        /\ e.reminder_price = Reminder40000 /\ e.last_price = PriceAtStart /\ ~e.mailed
        /\ \E c \in cart : c.by = e.by /\ c.reminder_price = Reminder40000
    /\ pending = {} /\ mailing = {}


\* C20: for each reminder a user sets on a cart entry (by names the request
\* that set it), at most one price drop mail is delivered, however many sweeps
\* run.
C20_NotifiedAtMostOnce ==
    \A m1, m2 \in DropMails(outbox) :
        (m1.user_id = m2.user_id /\ m1.product_id = m2.product_id /\ m1.by = m2.by)
            => m1 = m2


\* the price drop mails about the reminder that request b set
MailsFor(S, b) == {m \in DropMails(S) : m.by = b}

\* C21: a reminder that qualified is not given up before its mail has reached
\* the user: when the worker has cleared the reminder it mailed for, so that no
\* later sweep will read it, a price drop mail for that reminder has been
\* delivered or is still being sent.
C21_ReminderLeadsToMail ==
    \A x \in cleared :
        (x.reminder_price # Null /\ x.by = x.for)
            => MailsFor(outbox \cup mailing, x.by) # {}

\* C26: an UPDATE of the worker clears no reminder but the one its sweep
\* mailed for (by names the request that set the reminder the UPDATE found on
\* the row, for the one that set the reminder the mail was about), and every
\* cart row is one a cart add wrote: the worker creates none.
C26_ClearsOnlyTheNotifiedReminder ==
    /\ \A x \in cleared : x.reminder_price # Null => x.by = x.for
    /\ \A c \in cart : replies[c.by] = Json(200, "Cart updated successfully.")

(***************************************************************************)
(* The price history under every operation of the server.                  *)
(***************************************************************************)
\* C11: no step of the server (search, wishlist, cart, register, login, the
\* price drop worker and its mails) updates or deletes a price point: the
\* price points before the step are all there after it, in their places, each
\* with its product id, price and timestamp, and a step can only add new ones.
C11_PriceHistoryAppendOnly ==
    [][/\ Len(price_history') >= Len(price_history)
       /\ \A k \in 1..Len(price_history) : price_history'[k] = price_history[k]]_vars

\* a search has added a price point for the product that had one already, the
\* worker has mailed and cleared a reminder on that product, and the earlier
\* price point is as it was
C11_Witness ==
    /\ Len(price_history) >= 2
    /\ price_history[1] = ShopDatabase.price_history[1]
    /\ \E k \in 2..Len(price_history) : price_history[k].product_id = Pid
    /\ \E x \in cleared : x.product_id = Pid
    /\ \E k \in 1..Len(replies) : replies[k].status = 200


(***************************************************************************)
(* The wishlist.                                                           *)
(***************************************************************************)
Added == Json(200, "Added to wishlist.")
AlreadyPresent == Json(200, "Already in wishlist.")

\* the INSERT of a wishlist add completes in this step without a store error
AddCompletes(st) ==
    /\ st \in pending /\ st.op = "wishlistAdd"
    /\ st \notin pending'
    /\ storeErrors' = storeErrors

EntriesOf(W, args) == {w \in W : SamePair(w, args)}

\* C22: the wishlist never holds two entries for one (user, product) pair, and
\* every entry is the one of the request that was told "added"; when the
\* INSERT of an add completes without a store error, then either the pair had
\* no entry, the entry of this request is added and the request is told
\* "added", or the pair had an entry, the wishlist is left as it was and the
\* request is told "already present"; the answer is no error either way.
C22_WishlistAddIdempotent ==
    /\ [](\A w \in wishlists :
             /\ EntriesOf(wishlists, w) = {w}
             /\ replies[w.by] = Added)
    /\ [][\A st \in pending : AddCompletes(st) =>
             /\ Cardinality(EntriesOf(wishlists', st.args)) = 1
             /\ IF EntriesOf(wishlists, st.args) = {}
                THEN wishlists' = wishlists \cup {st.args} /\ replies'[st.s] = Added
                ELSE wishlists' = wishlists /\ replies'[st.s] = AlreadyPresent]_vars

\* the same pair was added twice by requests in flight at the same time: the
\* one entry is that of the request told "added", the other was told "already
\* present" (here the INSERT of the second request ran first)
C22_Witness ==
    /\ Len(replies) = 2
    /\ replies[2] = Added /\ replies[1] = AlreadyPresent
    /\ \E w \in wishlists : wishlists = {w} /\ w.by = 2 /\ w.product_id = Pid


\* the entry names a registered customer and a stored product
RefersToExisting(e) ==
    /\ CustomerOf(e.user_id) # {}
    /\ \E p \in products : p.id = e.product_id

\* C23: in every reachable state each wishlist entry and each cart entry
\* names an existing customer and an existing stored product.
C23_EntriesReferToExisting ==
    \A e \in wishlists \cup cart : RefersToExisting(e)


(***************************************************************************)
(* The provider mappings.                                                  *)
(***************************************************************************)
LacksBoth(item) == ~Truthy(item.price) /\ ~Truthy(item.thumbnail)
PriceAndThumbnail(list) == [k \in 1..Len(list) |-> <<list[k].price, list[k].thumbnail>>]

\* C25: the eBay adapter returns, in order, the items that have a price or a
\* thumbnail and drops the items that lack both; the Google Shopping and
\* Amazon adapters return one product per item.
C25_EbayDropsOnlyBare ==
    arg # <<>> =>
        IF arg[1] = 3
        THEN PriceAndThumbnail(result)
                 = PriceAndThumbnail(SelectSeq(arg[2], LAMBDA item : ~LacksBoth(item)))
        ELSE Len(result) = Len(arg[2])


(***************************************************************************)
(* The two copies of a product's price.                                    *)
(***************************************************************************)
\* every statement the searches handed to the driver has run, none with an error
SearchWritesSettled ==
    /\ \A st \in pending : st.op \notin {"upsert", "history"}
    /\ storeErrors = 0
    /\ failed = {}

\* the price points of a product that none of its price points is newer than
LatestPoints(id) ==
    {k \in RowsOf(id) : \A j \in RowsOf(id) : price_history[j].timestamp
                                                 <= price_history[k].timestamp}

\* C27: once the writes of the searches have all run without error, the
\* last_price of every stored product is the price of the product's price
\* point with the latest timestamp.
C27_LastPriceIsLatestPoint ==
    SearchWritesSettled =>
        \A r \in products : \A k \in LatestPoints(r.id) :
            price_history[k].price = r.last_price


(***************************************************************************)
(* Termination of a search.                                                *)
(***************************************************************************)
\* search s waits for something that is bound to happen: the answer or the
\* timeout of a provider call, or a history query the driver holds
WaitsForCall(s) == pc[s] = "call"
WaitsForQuery(s) == \E st \in pending : st.op = "select" /\ st.s = s

\* C24: a search that has started and is not answered yet can still complete:
\* the process runs, and the search waits for a provider call that will answer
\* or time out, or for a statement the driver will run.
C24_SearchCompletes ==
    \A s \in Searches :
        pc[s] \notin {"idle", "done"} =>
            /\ ~crashed
            /\ WaitsForCall(s) \/ WaitsForQuery(s)

====
